---- MODULE Spec2Model ----
(***************************************************************************)
(* Model of the menu bot in src/main.py: the Content Tree and Render       *)
(* Engine (pure functions), the four event handlers run as coroutines of   *)
(* one asyncio event loop, the de-duplication sets, the per-user locks,    *)
(* the checklist store, and the lock-file single-instance guard.           *)
(*                                                                         *)
(* Strings that the code splits on ":" (callback payloads) are modelled as *)
(* the sequence of their ":"-separated segments; Split rebuilds the parts  *)
(* that str.split(":", n) returns.  Button labels are kept without their   *)
(* emoji.  Node texts are not reproduced: a node's text is the pair        *)
(* <<"text", id>>.                                                         *)
(***************************************************************************)
EXTENDS Integers, Sequences, FiniteSets, TLC

VARIABLES
  \* ---- handlers (one asyncio event loop) ----
  _checklist_state,     \* user -> (item id -> BOOLEAN), created lazily
  _processed_messages,  \* set of /start fingerprints
  _processed_callbacks, \* set of file-callback fingerprints
  _user_locks,          \* users that own an asyncio.Lock in the registry
  locked,               \* user -> TRUE iff that user's Lock is held
  waiters,              \* user -> FIFO of handlers waiting for the Lock
  hs,                   \* handler coroutine -> its frame (pc, event, locals, log)
  delivered,            \* number of events dispatched so far
  msgClears,            \* times _processed_messages was cleared
  cbClears,             \* times _processed_callbacks was cleared
  existing,             \* file names that exist under CONTRACTS_DIR
  \* ---- single-instance guard (operating-system processes) ----
  lockFile,             \* content of .bot.lock, or NoFile
  proc,                 \* process -> its frame (pc, old_pid, ...)
  \* ---- render engine exercised on its own ----
  rIn,                  \* arguments of the last render_node call
  rOut                  \* its result

hvars == <<_checklist_state, _processed_messages, _processed_callbacks,
           _user_locks, locked, waiters, hs, delivered, msgClears, cbClears,
           existing>>
gvars == <<lockFile, proc>>
rvars == <<rIn, rOut>>
vars  == <<_checklist_state, _processed_messages, _processed_callbacks,
           _user_locks, locked, waiters, hs, delivered, msgClears, cbClears,
           existing, lockFile, proc, rIn, rOut>>

-----------------------------------------------------------------------------
(* Python's None *)
None == "<None>"

(* Users of the bot (from_user.id); a private chat has the user's id. *)
Users == {"u1", "u2"}

-----------------------------------------------------------------------------
(* CONTENT DATA *)

CHECKLIST_NODE == "start_step_7"

CHECKLIST_ITEMS ==
  <<
    <<"Market & model", <<<<"market_demand", "Market demand validated">>, <<"partner_model", "Partner model selected">>, <<"unit_economics", "Unit economics calculated">>, <<"target_regions", "Target regions defined">>>>>>,
    <<"Ops & ownership", <<<<"ops_owner", "Ops owner assigned">>, <<"partner_contact", "Partner contact established">>, <<"call_center_ready", "Call center ready">>, <<"escalation_defined", "Escalation process defined">>>>>>,
    <<"Contracts & legal", <<<<"contract_template", "Contract template ready">>, <<"partner_alignment", "Partner alignment confirmed">>, <<"legal_approval", "Legal approval obtained">>, <<"signing_process", "Signing process tested">>>>>>,
    <<"Lead processing & tracking", <<<<"tracker_created", "Lead tracker created">>, <<"statuses_configured", "Statuses configured">>, <<"routing_tested", "Routing flow tested">>, <<"no_duplicates", "No duplicate handling verified">>>>>>,
    <<"Acquisition & budgets", <<<<"channels_approved", "Channels approved">>, <<"landing_validated", "Landing page validated">>, <<"whatsapp_active", "WhatsApp flow active">>, <<"budgets_approved", "Budgets approved">>, <<"tracking_checked", "Tracking verified">>>>>>,
    <<"Reporting & monitoring", <<<<"kpi_defined", "KPIs defined">>, <<"reporting_template", "Reporting template ready">>, <<"cadence_agreed", "Reporting cadence agreed">>, <<"first_report_set", "First report scheduled">>>>>>,
    <<"Go-live decision", <<<<"all_checks_done", "All checks completed">>, <<"launch_date_confirmed", "Launch date confirmed">>, <<"ready_to_scale", "Ready to scale">>>>>>
  >>

MenuNode(id, parent_id, children, links, files) ==
  [id |-> id, text |-> <<"text", id>>, parent_id |-> parent_id,
   children |-> children,
   links |-> links, files |-> files]

MENU ==
     "root" :> MenuNode("root", None,
        <<<<"How it works", "what_is_coa">>, <<"Start launch", "start_launch">>, <<"Communication flows", "flows">>, <<"Materials & templates", "materials">>, <<"Reports & KPI", "reports">>, <<"FAQ", "faq">>, <<"Contacts", "contacts">>>>,
        <<>>,
        <<>>)
  @@ "what_is_coa" :> MenuNode("what_is_coa", "root",
        <<>>,
        <<>>,
        <<>>)
  @@ "start_launch" :> MenuNode("start_launch", "root",
        <<<<"Step 1 - Market & Model", "start_step_1">>, <<"Step 2 - Ops readiness", "start_step_2">>, <<"Step 3 - Acquisition channels", "start_step_3">>, <<"Step 4 - Lead processing & reporting", "start_step_4">>, <<"Step 5 - Go live checklist", "start_step_7">>>>,
        <<>>,
        <<>>)
  @@ "start_step_1" :> MenuNode("start_step_1", "start_launch",
        <<<<"Market demand & behavior", "start_step_1_market_demand">>, <<"Unit economics & financial model", "start_step_1_financial_model">>, <<"Partner landscape", "start_step_1_partner_landscape">>, <<"Go / No-Go decision", "start_step_1_launch_decision">>>>,
        <<>>,
        <<>>)
  @@ "start_step_1_market_demand" :> MenuNode("start_step_1_market_demand", "start_step_1",
        <<>>,
        <<>>,
        <<>>)
  @@ "start_step_1_financial_model" :> MenuNode("start_step_1_financial_model", "start_step_1",
        <<>>,
        <<"Unit economics template">>,
        <<>>)
  @@ "start_step_1_partner_landscape" :> MenuNode("start_step_1_partner_landscape", "start_step_1",
        <<>>,
        <<>>,
        <<>>)
  @@ "start_step_1_launch_decision" :> MenuNode("start_step_1_launch_decision", "start_step_1",
        <<>>,
        <<>>,
        <<>>)
  @@ "start_step_2" :> MenuNode("start_step_2", "start_launch",
        <<<<"Local ops & ownership", "start_step_2_ops_team_setup">>, <<"Scouts / call center readiness", "start_step_2_scouts_call_center">>, <<"Contracts & legal alignment", "start_step_2_contracts_legal">>>>,
        <<>>,
        <<>>)
  @@ "start_step_2_ops_team_setup" :> MenuNode("start_step_2_ops_team_setup", "start_step_2",
        <<>>,
        <<>>,
        <<>>)
  @@ "start_step_2_scouts_call_center" :> MenuNode("start_step_2_scouts_call_center", "start_step_2",
        <<>>,
        <<"Lead handling script & qualification template">>,
        <<>>)
  @@ "start_step_2_contracts_legal" :> MenuNode("start_step_2_contracts_legal", "start_step_2",
        <<>>,
        <<"Example legal approval ticket">>,
        <<<<"Contract Eng (Zambia)", "Contract Eng (Zambia).docx">>, <<"Contract Portu (Angola)", "Contract Portu (Angola).pdf">>, <<"Contract FR (Cameroon)", "Contract FR (Cameroon).pdf">>>>)
  @@ "start_step_2_lead_tracker_setup" :> MenuNode("start_step_2_lead_tracker_setup", "start_step_4",
        <<>>,
        <<"Example tracker template">>,
        <<>>)
  @@ "start_step_2_ops_go_live_check" :> MenuNode("start_step_2_ops_go_live_check", "start_step_7",
        <<>>,
        <<>>,
        <<>>)
  @@ "start_step_3" :> MenuNode("start_step_3", "start_launch",
        <<>>,
        <<"Template for launch of landing", "Zambia landing", "Angola landing", "Cameroon landing", "Ethiopia landing", "WhatsApp scripts & qualification sheets">>,
        <<>>)
  @@ "start_step_4" :> MenuNode("start_step_4", "start_launch",
        <<<<"Lead intake & routing", "start_step_4_lead_intake_routing">>, <<"Lead tracker setup", "start_step_2_lead_tracker_setup">>, <<"Weekly reporting & KPI", "start_step_4_weekly_reporting_kpi">>>>,
        <<>>,
        <<>>)
  @@ "start_step_4_lead_intake_routing" :> MenuNode("start_step_4_lead_intake_routing", "start_step_4",
        <<>>,
        <<>>,
        <<>>)
  @@ "start_step_4_weekly_reporting_kpi" :> MenuNode("start_step_4_weekly_reporting_kpi", "start_step_4",
        <<>>,
        <<>>,
        <<>>)
  @@ "start_step_5" :> MenuNode("start_step_5", "start_launch",
        <<>>,
        <<>>,
        <<>>)
  @@ "start_step_6" :> MenuNode("start_step_6", "start_launch",
        <<>>,
        <<"KPI tracker (Sheet)", "Lead tracker (Sheet)">>,
        <<>>)
  @@ "start_step_7" :> MenuNode("start_step_7", "start_launch",
        <<>>,
        <<>>,
        <<>>)
  @@ "materials" :> MenuNode("materials", "root",
        <<<<"Contracts", "materials_contracts">>, <<"Landing templates", "materials_landing">>, <<"Marketing materials", "materials_marketing">>, <<"Financial model templates", "materials_finmodel">>>>,
        <<>>,
        <<>>)
  @@ "materials_contracts" :> MenuNode("materials_contracts", "materials",
        <<>>,
        <<>>,
        <<<<"Contract Eng (Zambia)", "Contract Eng (Zambia).docx">>, <<"Contract Portu (Angola)", "Contract Portu (Angola).pdf">>, <<"Contract FR (Cameroon)", "Contract FR (Cameroon).pdf">>>>)
  @@ "materials_landing" :> MenuNode("materials_landing", "materials",
        <<>>,
        <<"Template for launch of landing", "Zambia landing", "Angola landing", "Cameroon landing", "Ethiopia landing">>,
        <<>>)
  @@ "materials_marketing" :> MenuNode("materials_marketing", "materials",
        <<<<"Performance creatives", "materials_marketing_perf">>, <<"OOH materials", "materials_marketing_ooh">>, <<"Flyers & Printed materials", "materials_marketing_offline">>, <<"In-app creatives", "materials_marketing_inapp">>>>,
        <<>>,
        <<>>)
  @@ "materials_marketing_perf" :> MenuNode("materials_marketing_perf", "materials_marketing",
        <<<<"Angola", "materials_marketing_perf_ao">>, <<"Botswana", "materials_marketing_perf_bw">>, <<"Zambia", "materials_marketing_perf_zm">>, <<"Congo", "materials_marketing_perf_cg">>, <<"Performance sets (Dec 2024)", "materials_marketing_perf_sets">>, <<"Performance text library", "materials_marketing_perf_texts">>>>,
        <<>>,
        <<>>)
  @@ "materials_marketing_perf_ao" :> MenuNode("materials_marketing_perf_ao", "materials_marketing_perf",
        <<>>,
        <<"Angola  WA & performance", "Angola  general performance">>,
        <<>>)
  @@ "materials_marketing_perf_bw" :> MenuNode("materials_marketing_perf_bw", "materials_marketing_perf",
        <<>>,
        <<"Botswana  performance">>,
        <<>>)
  @@ "materials_marketing_perf_zm" :> MenuNode("materials_marketing_perf_zm", "materials_marketing_perf",
        <<>>,
        <<"Zambia  performance (TikTok + Instagram)", "Zambia  performance ad texts">>,
        <<>>)
  @@ "materials_marketing_perf_cg" :> MenuNode("materials_marketing_perf_cg", "materials_marketing_perf",
        <<>>,
        <<"Congo  performance banners", "Congo  performance texts">>,
        <<>>)
  @@ "materials_marketing_perf_sets" :> MenuNode("materials_marketing_perf_sets", "materials_marketing_perf",
        <<>>,
        <<"Performance sets Dec24 (1)", "Performance sets Dec24 (2)">>,
        <<>>)
  @@ "materials_marketing_perf_texts" :> MenuNode("materials_marketing_perf_texts", "materials_marketing_perf",
        <<>>,
        <<"Performance text library">>,
        <<>>)
  @@ "materials_marketing_ooh" :> MenuNode("materials_marketing_ooh", "materials_marketing",
        <<<<"Malls OOH", "materials_marketing_ooh_malls">>, <<"Angola OOH", "materials_marketing_ooh_ao">>, <<"Zambia OOH", "materials_marketing_ooh_zm">>>>,
        <<>>,
        <<>>)
  @@ "materials_marketing_ooh_malls" :> MenuNode("materials_marketing_ooh_malls", "materials_marketing_ooh",
        <<>>,
        <<"Malls OOH">>,
        <<>>)
  @@ "materials_marketing_ooh_ao" :> MenuNode("materials_marketing_ooh_ao", "materials_marketing_ooh",
        <<>>,
        <<"Angola OOH">>,
        <<>>)
  @@ "materials_marketing_ooh_zm" :> MenuNode("materials_marketing_ooh_zm", "materials_marketing_ooh",
        <<>>,
        <<"Zambia OOH">>,
        <<>>)
  @@ "materials_marketing_offline" :> MenuNode("materials_marketing_offline", "materials_marketing",
        <<>>,
        <<"Angola flyers (ANGOTIC)", "Partner printed materials">>,
        <<>>)
  @@ "materials_marketing_inapp" :> MenuNode("materials_marketing_inapp", "materials_marketing",
        <<<<"Angola in-app", "materials_marketing_inapp_ao">>, <<"Zambia in-app", "materials_marketing_inapp_zm">>>>,
        <<>>,
        <<>>)
  @@ "materials_marketing_inapp_ao" :> MenuNode("materials_marketing_inapp_ao", "materials_marketing_inapp",
        <<>>,
        <<"Angola in-app">>,
        <<>>)
  @@ "materials_marketing_inapp_zm" :> MenuNode("materials_marketing_inapp_zm", "materials_marketing_inapp",
        <<>>,
        <<"Zambia in-app">>,
        <<>>)
  @@ "materials_finmodel" :> MenuNode("materials_finmodel", "materials",
        <<>>,
        <<"Financial model template (Unit Economics only)">>,
        <<>>)
  @@ "flows" :> MenuNode("flows", "root",
        <<<<"Flow 1 - Landing page (recommended)", "flows_landing">>, <<"Flow 2 - WhatsApp", "flows_wa">>, <<"Flow selection guidance", "flows_selection">>>>,
        <<>>,
        <<>>)
  @@ "flows_landing" :> MenuNode("flows_landing", "flows",
        <<>>,
        <<"Zambia landing", "Angola landing", "Cameroon landing", "Ethiopia landing">>,
        <<>>)
  @@ "flows_wa" :> MenuNode("flows_wa", "flows",
        <<>>,
        <<>>,
        <<>>)
  @@ "flows_selection" :> MenuNode("flows_selection", "flows",
        <<>>,
        <<>>,
        <<>>)
  @@ "reports" :> MenuNode("reports", "root",
        <<<<"KPI definitions and formulas", "reports_definitions">>, <<"Country benchmarks", "reports_benchmarks">>, <<"KPI tracker", "reports_tracker">>, <<"Weekly reports", "reports_weekly">>>>,
        <<>>,
        <<>>)
  @@ "reports_definitions" :> MenuNode("reports_definitions", "reports",
        <<>>,
        <<"KPI tracker (Sheet)">>,
        <<>>)
  @@ "reports_benchmarks" :> MenuNode("reports_benchmarks", "reports",
        <<>>,
        <<"Country benchmark tracker">>,
        <<>>)
  @@ "reports_tracker" :> MenuNode("reports_tracker", "reports",
        <<>>,
        <<"KPI tracker (Sheet)", "Lead tracker (Sheet)">>,
        <<>>)
  @@ "reports_weekly" :> MenuNode("reports_weekly", "reports",
        <<>>,
        <<"Example weekly report template">>,
        <<>>)
  @@ "faq" :> MenuNode("faq", "root",
        <<>>,
        <<>>,
        <<>>)
  @@ "contacts" :> MenuNode("contacts", "root",
        <<>>,
        <<>>,
        <<>>)

-----------------------------------------------------------------------------
(* SEQUENCE HELPERS *)

RECURSIVE Concat(_)
Concat(ss) == IF ss = <<>> THEN <<>> ELSE Head(ss) \o Concat(Tail(ss))

RECURSIVE SumSeq(_)
SumSeq(s) == IF s = <<>> THEN 0 ELSE Head(s) + SumSeq(Tail(s))

-----------------------------------------------------------------------------
(* CHECKLIST STATE STORE *)

(* the (item_id, item_text) pairs of every category, in catalog order:
   "for items in CHECKLIST_ITEMS.values() for item_id, _ in items" *)
CatalogItems == Concat([i \in 1..Len(CHECKLIST_ITEMS) |-> CHECKLIST_ITEMS[i][2]])

CatalogIds == {CatalogItems[i][1] : i \in 1..Len(CatalogItems)}

EmptyDict == [k \in {} |-> FALSE]

(* state.get(item_id, False) *)
StateGet(state, item_id) ==
  IF item_id \in DOMAIN state THEN state[item_id] ELSE FALSE

(* get_checklist_state: the store after the lazy initialisation *)
get_checklist_state(store, user_id) ==
  IF user_id \in DOMAIN store THEN store
  ELSE [u \in DOMAIN store \cup {user_id} |->
          IF u = user_id THEN EmptyDict ELSE store[u]]

(* a toggle that stores a fresh dict holding only the toggled item *)
toggle_checklist_item_fresh_dict(store, user_id, item_id) ==
  LET s0      == get_checklist_state(store, user_id)
      current == StateGet(s0[user_id], item_id)
  IN  [u \in DOMAIN s0 |->
         IF u = user_id THEN [k \in {item_id} |-> ~current] ELSE s0[u]]

(* a toggle that flips the item in the dict of every user of the store *)
toggle_checklist_item_all_users(store, user_id, item_id) ==
  LET s0 == get_checklist_state(store, user_id)
  IN  [u \in DOMAIN s0 |->
         [k \in DOMAIN s0[u] \cup {item_id} |->
            IF k = item_id THEN ~StateGet(s0[u], item_id) ELSE s0[u][k]]]

(* toggle_checklist_item: the store after the flip *)
toggle_checklist_item(store, user_id, item_id) ==
  LET s0      == get_checklist_state(store, user_id)
      state   == s0[user_id]
      current == StateGet(state, item_id)
      flipped == [k \in DOMAIN state \cup {item_id} |->
                    IF k = item_id THEN ~current ELSE state[k]]
  IN  [u \in DOMAIN s0 |-> IF u = user_id THEN flipped ELSE s0[u]]

(* a progress that counts the stored keys instead of the checked items *)
get_checklist_progress_count_keys(store, user_id) ==
  LET state == get_checklist_state(store, user_id)[user_id]
      total == SumSeq([i \in 1..Len(CHECKLIST_ITEMS) |-> Len(CHECKLIST_ITEMS[i][2])])
      completed == Cardinality({i \in 1..Len(CatalogItems) :
                                   CatalogItems[i][1] \in DOMAIN state})
  IN  <<completed, total>>

(* get_checklist_progress: <<completed, total>> *)
get_checklist_progress(store, user_id) ==
  LET state == get_checklist_state(store, user_id)[user_id]
      total == SumSeq([i \in 1..Len(CHECKLIST_ITEMS) |-> Len(CHECKLIST_ITEMS[i][2])])
      completed == Cardinality({i \in 1..Len(CatalogItems) :
                                   StateGet(state, CatalogItems[i][1])})
  IN  <<completed, total>>

-----------------------------------------------------------------------------
(* RENDER ENGINE *)

CallbackButton(text, callback_data) ==
  [text |-> text, callback_data |-> callback_data]

UrlButton(text, url) == [text |-> text, url |-> url]

(* a checklist keyboard whose Back button leads to root *)
build_checklist_keyboard_back_to_root(store, user_id, node) ==
  LET state == get_checklist_state(store, user_id)[user_id]
      rows  == [i \in 1..Len(CatalogItems) |->
                 <<CallbackButton(
                     <<IF StateGet(state, CatalogItems[i][1])
                         THEN "checked" ELSE "unchecked",
                       CatalogItems[i][2]>>,
                     <<"toggle", CatalogItems[i][1]>>)>>]
      footer_buttons == <<CallbackButton(<<"Back">>, <<"menu", "root">>),
                          CallbackButton(<<"Home">>, <<"menu", "root">>)>>
  IN  Append(rows, footer_buttons)

(* a checklist keyboard whose glyph tells whether the item was ever stored,
   not whether it is stored as true *)
build_checklist_keyboard_glyph_from_keys(store, user_id, node) ==
  LET state == get_checklist_state(store, user_id)[user_id]
      rows  == [i \in 1..Len(CatalogItems) |->
                 <<CallbackButton(
                     <<IF CatalogItems[i][1] \in DOMAIN state
                         THEN "checked" ELSE "unchecked",
                       CatalogItems[i][2]>>,
                     <<"toggle", CatalogItems[i][1]>>)>>]
      parent_node_id ==
        IF node.parent_id # None /\ node.parent_id \in DOMAIN MENU
        THEN node.parent_id ELSE "root"
      footer_buttons == <<CallbackButton(<<"Back">>, <<"menu", parent_node_id>>),
                          CallbackButton(<<"Home">>, <<"menu", "root">>)>>
  IN  Append(rows, footer_buttons)

(* build_checklist_keyboard *)
build_checklist_keyboard(store, user_id, node) ==
  LET state == get_checklist_state(store, user_id)[user_id]
      rows  == [i \in 1..Len(CatalogItems) |->
                 <<CallbackButton(
                     <<IF StateGet(state, CatalogItems[i][1])
                         THEN "checked" ELSE "unchecked",
                       CatalogItems[i][2]>>,
                     <<"toggle", CatalogItems[i][1]>>)>>]
      parent_node_id ==
        IF node.parent_id # None /\ node.parent_id \in DOMAIN MENU
        THEN node.parent_id ELSE "root"
      footer_buttons == <<CallbackButton(<<"Back">>, <<"menu", parent_node_id>>),
                          CallbackButton(<<"Home">>, <<"menu", "root">>)>>
  IN  Append(rows, footer_buttons)

(* a main menu whose last button names a section that is not in the tree *)
main_menu_buttons_stale_section ==
  << <<"How it works", "what_is_coa">>,
     <<"Start launch", "start_launch">>,
     <<"Communication flows", "flows">>,
     <<"Materials & templates", "materials">>,
     <<"Reports & KPI", "reports">>,
     <<"FAQ", "faq">>,
     <<"Contacts", "about">> >>

main_menu_buttons ==
  << <<"How it works", "what_is_coa">>,
     <<"Start launch", "start_launch">>,
     <<"Communication flows", "flows">>,
     <<"Materials & templates", "materials">>,
     <<"Reports & KPI", "reports">>,
     <<"FAQ", "faq">>,
     <<"Contacts", "contacts">> >>

(* build_main_menu *)
build_main_menu ==
  LET rows == [i \in 1..Len(main_menu_buttons) |->
                 <<CallbackButton(<<main_menu_buttons[i][1]>>,
                                  <<"menu", main_menu_buttons[i][2]>>)>>]
      footer_buttons == <<CallbackButton(<<"Back">>, <<"menu", "root">>),
                          CallbackButton(<<"Home">>, <<"menu", "root">>)>>
  IN  Append(rows, footer_buttons)

(* a keyboard builder that leaves out the file buttons *)
build_menu_keyboard_no_file_rows(node, user_id, store) ==
  IF node.id = "root" THEN build_main_menu
  ELSE IF node.id = CHECKLIST_NODE /\ user_id # None
       THEN build_checklist_keyboard(store, user_id, node)
  ELSE
    LET childRows == [i \in 1..Len(node.children) |->
                        <<CallbackButton(<<node.children[i][1]>>,
                                         <<"menu", node.children[i][2]>>)>>]
        linkRows  == [i \in 1..Len(node.links) |->
                        <<UrlButton(<<"link", node.links[i]>>,
                                    <<"url", node.id, i>>)>>]
        p0 == IF node.parent_id # None THEN node.parent_id ELSE "root"
        parent_node_id == IF p0 \notin DOMAIN MENU THEN "root" ELSE p0
        footer_buttons == <<CallbackButton(<<"Back">>, <<"menu", parent_node_id>>),
                            CallbackButton(<<"Home">>, <<"menu", "root">>)>>
    IN  Append(childRows \o linkRows, footer_buttons)

(* a keyboard builder without the special case of root: root is rendered
   from its children like any other node *)
build_menu_keyboard_root_from_children(node, user_id, store) ==
  IF node.id = CHECKLIST_NODE /\ user_id # None
    THEN build_checklist_keyboard(store, user_id, node)
  ELSE
    LET childRows == [i \in 1..Len(node.children) |->
                        <<CallbackButton(<<node.children[i][1]>>,
                                         <<"menu", node.children[i][2]>>)>>]
        p0 == IF node.parent_id # None THEN node.parent_id ELSE "root"
        parent_node_id == IF p0 \notin DOMAIN MENU THEN "root" ELSE p0
        footer_buttons == <<CallbackButton(<<"Back">>, <<"menu", parent_node_id>>),
                            CallbackButton(<<"Home">>, <<"menu", "root">>)>>
    IN  Append(childRows, footer_buttons)

(* a keyboard builder whose Back button names the parent without looking
   it up in the Content Tree *)
build_menu_keyboard_raw_parent(node, user_id, store) ==
  IF node.id = "root" THEN build_main_menu
  ELSE IF node.id = CHECKLIST_NODE /\ user_id # None
       THEN build_checklist_keyboard(store, user_id, node)
  ELSE
    LET childRows == [i \in 1..Len(node.children) |->
                        <<CallbackButton(<<node.children[i][1]>>,
                                         <<"menu", node.children[i][2]>>)>>]
        linkRows  == [i \in 1..Len(node.links) |->
                        <<UrlButton(<<"link", node.links[i]>>,
                                    <<"url", node.id, i>>)>>]
        fileRows  == [i \in 1..Len(node.files) |->
                        <<CallbackButton(<<"file", node.files[i][1]>>,
                                         <<"file", node.id, node.files[i][1]>>)>>]
        p0 == IF node.parent_id # None THEN node.parent_id ELSE "root"
        footer_buttons == <<CallbackButton(<<"Back">>, <<"menu", p0>>),
                            CallbackButton(<<"Home">>, <<"menu", "root">>)>>
    IN  Append(childRows \o linkRows \o fileRows, footer_buttons)

(* build_menu_keyboard *)
build_menu_keyboard(node, user_id, store) ==
  IF node.id = "root" THEN build_main_menu
  ELSE IF node.id = CHECKLIST_NODE /\ user_id # None
       THEN build_checklist_keyboard(store, user_id, node)
  ELSE
    LET childRows == [i \in 1..Len(node.children) |->
                        <<CallbackButton(<<node.children[i][1]>>,
                                         <<"menu", node.children[i][2]>>)>>]
        linkRows  == [i \in 1..Len(node.links) |->
                        <<UrlButton(<<"link", node.links[i]>>,
                                    <<"url", node.id, i>>)>>]
        fileRows  == [i \in 1..Len(node.files) |->
                        <<CallbackButton(<<"file", node.files[i][1]>>,
                                         <<"file", node.id, node.files[i][1]>>)>>]
        p0 == IF node.parent_id # None THEN node.parent_id ELSE "root"
        parent_node_id == IF p0 \notin DOMAIN MENU THEN "root" ELSE p0
        footer_buttons == <<CallbackButton(<<"Back">>, <<"menu", parent_node_id>>),
                            CallbackButton(<<"Home">>, <<"menu", "root">>)>>
    IN  Append(childRows \o linkRows \o fileRows, footer_buttons)

(* get_checklist_text: the fixed header is left out, the text is
   "Progress: {completed} / {total} completed" *)
get_checklist_text(store, user_id) ==
  LET p == get_checklist_progress(store, user_id)
  IN  <<"Progress", p[1], p[2]>>

(* a fallback to the first section instead of root *)
ResolveNodeId_first_section(node_id) ==
  IF node_id \notin DOMAIN MENU THEN "what_is_coa" ELSE node_id

(* render_node lines 1753-1756: an unknown node id is replaced by root *)
ResolveNodeId(node_id) ==
  IF node_id \notin DOMAIN MENU THEN "root" ELSE node_id

Returned(text, keyboard) ==
  [raised |-> None, text |-> text, keyboard |-> keyboard]

Raised(exc) == [raised |-> exc, text |-> <<>>, keyboard |-> <<>>]

(* a render_node without the user id check of the checklist node *)
render_node_no_user_check(node_id, user_id, store) ==
  LET nid  == ResolveNodeId(node_id)
      node == MENU[nid]
  IN  IF nid = "root" THEN Returned(node.text, build_main_menu)
      ELSE IF nid = CHECKLIST_NODE
           THEN Returned(get_checklist_text(store, user_id),
                         build_menu_keyboard(node, user_id, store))
      ELSE Returned(node.text, build_menu_keyboard(node, None, store))

(* render_node: the (text, keyboard) pair it returns, or the exception it
   raises *)
render_node(node_id, user_id, store) ==
  LET nid  == ResolveNodeId(node_id)
      node == MENU[nid]
  IN  IF nid = "root" THEN Returned(node.text, build_main_menu)
      ELSE IF nid = CHECKLIST_NODE
           THEN IF user_id = None THEN Raised("ValueError")
                ELSE Returned(get_checklist_text(store, user_id),
                              build_menu_keyboard(node, user_id, store))
      ELSE Returned(node.text, build_menu_keyboard(node, None, store))

(* render_node's effect on the store: the checklist node of a user creates
   that user's (empty) state on first access *)
render_store(node_id, user_id, store) ==
  IF ResolveNodeId(node_id) = CHECKLIST_NODE /\ user_id # None
  THEN get_checklist_state(store, user_id)
  ELSE store

-----------------------------------------------------------------------------
(* THE RENDER ENGINE ON ITS OWN: render_node applied to bounded inputs *)

(* item ids that the modelled events toggle *)
ToggleItems == {"market_demand", "partner_model"}

UnknownNodeIds == {"nope", "", "Root", "start_step_8"}

RenderNodeIds == DOMAIN MENU \cup UnknownNodeIds

(* the states one user's dict can be in over ToggleItems *)
UserStates ==
  UNION {[d -> BOOLEAN] : d \in SUBSET ToggleItems}

(* stores in which every user is absent or holds one of UserStates *)
RenderStores ==
  UNION {[d -> UserStates] : d \in SUBSET Users}

(* no call yet *)
NoCall == [node_id |-> None, user_id |-> None, store |-> EmptyDict]

RenderInit ==
  /\ rIn = NoCall
  /\ rOut = [raised |-> None, text |-> <<>>, keyboard |-> <<>>]

RenderCall ==
  /\ rIn = NoCall
  /\ \E node_id \in RenderNodeIds, user_id \in Users \cup {None},
        store \in RenderStores :
       /\ rIn' = [node_id |-> node_id, user_id |-> user_id, store |-> store]
       /\ rOut' = render_node(node_id, user_id, store)
  /\ UNCHANGED <<hvars, gvars>>

-----------------------------------------------------------------------------
(* SINGLE-INSTANCE GUARD: check_single_instance, main, cleanup_lock        *)
(*                                                                         *)
(* Each bot process runs the module top to bottom: token check at import,  *)
(* check_single_instance, atexit.register, asyncio.run(main()).  One       *)
(* action is one file-system or kernel call, so that the calls of two      *)
(* processes interleave.  File-system calls on the marker are taken to     *)
(* succeed.  A process is identified with its pid.                         *)

Procs == {"p1", "p2"}

NoFile == "<absent>"

(* a marker whose content int() rejects *)
Garbage == "not-a-pid"

(* a pid no process has: os.kill raises ProcessLookupError *)
DeadPid == "pid-dead"

(* a live process of another user: os.kill raises PermissionError *)
ForeignPid == "pid-foreign"

MarkerContents == Procs \cup {Garbage, DeadPid, ForeignPid}

(* BOT_TOKEN values, as the sequence of their ":"-separated segments *)
Tokens == {None, <<"">>, <<"123456", "secret">>, <<"1", "2", "3">>, <<"abc">>}

(* lines 27-32: the token is present and holds exactly one ":" *)
TokenAccepted(token) ==
  /\ token # None
  /\ token # <<"">>
  /\ Len(token) - 1 = 1

(* Content Trees a process may be started with: the repository's tree and
   two incorrectly edited copies *)
BrokenChild ==
  [MENU EXCEPT !["faq"].children = <<<<"More", "faq_more">>>>]

BrokenParent ==
  [MENU EXCEPT !["contacts"].parent_id = "about"]

Trees == [good |-> MENU, badchild |-> BrokenChild, badparent |-> BrokenParent]

(* a validation that checks the children only *)
validate_menu_structure_children_only(menu) ==
  UNION {{<<n, "child", menu[n].children[i][2]>> :
            i \in {j \in 1..Len(menu[n].children) :
                     menu[n].children[j][2] \notin DOMAIN menu}} :
         n \in DOMAIN menu}

(* validate_menu_structure: the errors list *)
validate_menu_structure(menu) ==
  LET childErrors ==
        UNION {{<<n, "child", menu[n].children[i][2]>> :
                  i \in {j \in 1..Len(menu[n].children) :
                           menu[n].children[j][2] \notin DOMAIN menu}} :
               n \in DOMAIN menu}
      parentErrors ==
        {<<n, "parent", menu[n].parent_id>> :
           n \in {m \in DOMAIN menu :
                    /\ menu[m].parent_id # None
                    /\ menu[m].parent_id \notin DOMAIN menu}}
  IN  childErrors \cup parentErrors

RunningPcs == {"exists", "read", "probe", "unlink", "write", "main",
               "polling", "finally", "atexit"}

(* os.kill(pid, 0) succeeds: the pid is a bot process that is running *)
Alive(pid) == pid \in Procs /\ proc[pid].pc \in RunningPcs

IdleFrame ==
  [pc |-> "idle", token |-> None, tree |-> None, old_pid |-> None,
   found |-> None, exc |-> None]

GuardInit ==
  /\ lockFile \in {NoFile, Garbage, DeadPid, ForeignPid}
  /\ proc = [p \in Procs |-> IdleFrame]

SetProc(p, frame) ==
  /\ proc' = [proc EXCEPT ![p] = frame]
  /\ UNCHANGED <<hvars, rvars>>

(* python main.py: lines 24-32, BOT_TOKEN is read and checked at import;
   a rejected token raises SystemExit before the guard is reached *)
Start(p) ==
  /\ proc[p].pc = "idle"
  /\ \E token \in Tokens, tree \in DOMAIN Trees :
       SetProc(p, [proc[p] EXCEPT
                     !.pc = IF TokenAccepted(token) THEN "exists" ELSE "rejected",
                     !.token = token,
                     !.tree = tree])
  /\ UNCHANGED lockFile

(* line 2052: LOCK_FILE.exists() *)
CheckExists(p) ==
  /\ proc[p].pc = "exists"
  /\ SetProc(p, [proc[p] EXCEPT
                   !.pc = IF lockFile # NoFile THEN "read" ELSE "write"])
  /\ UNCHANGED lockFile

(* lines 2055-2056: open, read, int(); FileNotFoundError and ValueError
   lead to the handler of line 2071 *)
ReadPid(p) ==
  /\ proc[p].pc = "read"
  /\ SetProc(p,
       IF lockFile = NoFile
         THEN [proc[p] EXCEPT !.pc = "unlink", !.found = "vanished"]
       ELSE IF lockFile = Garbage
         THEN [proc[p] EXCEPT !.pc = "unlink", !.found = "malformed"]
       ELSE [proc[p] EXCEPT !.pc = "probe", !.old_pid = lockFile])
  /\ UNCHANGED lockFile

(* the outcome of os.kill(old_pid, 0) *)
KillZero(old_pid) ==
  IF old_pid = ForeignPid THEN "PermissionError"
  ELSE IF Alive(old_pid) THEN "ok"
  ELSE "ProcessLookupError"

(* a guard that also refuses to start on a stale marker *)
AfterProbe_exit_on_stale(outcome) ==
  CASE outcome = "ok" -> [pc |-> "aborted", found |-> "alive"]
    [] outcome = "ProcessLookupError" -> [pc |-> "aborted", found |-> "stale"]
    [] outcome = "PermissionError" -> [pc |-> "write", found |-> "alive"]

(* the branch check_single_instance takes on each outcome of os.kill:
   sys.exit(1), unlink the stale marker, or warn and fall through *)
AfterProbe(outcome) ==
  CASE outcome = "ok" -> [pc |-> "aborted", found |-> "alive"]
    [] outcome = "ProcessLookupError" -> [pc |-> "unlink", found |-> "stale"]
    [] outcome = "PermissionError" -> [pc |-> "write", found |-> "alive"]

(* a start that registers the shutdown cleanup before the guard: the abort
   of sys.exit(1) then removes the marker *)
Probe_abort_runs_cleanup(p) ==
  /\ proc[p].pc = "probe"
  /\ LET r == AfterProbe(KillZero(proc[p].old_pid))
     IN  /\ SetProc(p, [proc[p] EXCEPT !.pc = r.pc, !.found = r.found])
         /\ lockFile' = IF r.pc = "aborted"
                          THEN NoFile ELSE lockFile

(* lines 2058-2070 *)
Probe(p) ==
  /\ proc[p].pc = "probe"
  /\ LET r == AfterProbe(KillZero(proc[p].old_pid))
     IN  SetProc(p, [proc[p] EXCEPT !.pc = r.pc, !.found = r.found])
  /\ UNCHANGED lockFile

(* lines 2066 / 2073: LOCK_FILE.unlink(missing_ok=True) *)
UnlinkMarker(p) ==
  /\ proc[p].pc = "unlink"
  /\ lockFile' = NoFile
  /\ SetProc(p, [proc[p] EXCEPT !.pc = "write"])

(* lines 2076-2078, then 2141-2145: the marker is written, cleanup_lock is
   registered with atexit and asyncio.run(main()) is entered *)
WriteMarker(p) ==
  /\ proc[p].pc = "write"
  /\ lockFile' = p
  /\ SetProc(p, [proc[p] EXCEPT !.pc = "main"])

(* lines 2112-2126: validate_menu_structure, then start_polling; sys.exit
   raises SystemExit, which "except Exception" does not catch *)
Validate(p) ==
  /\ proc[p].pc = "main"
  /\ SetProc(p,
       IF validate_menu_structure(Trees[proc[p].tree]) # {}
         THEN [proc[p] EXCEPT !.pc = "finally", !.exc = "SystemExit"]
         ELSE [proc[p] EXCEPT !.pc = "polling"])
  /\ UNCHANGED lockFile

(* line 2126: start_polling returns, or raises (lines 2127-2131 re-raise) *)
PollEnd(p) ==
  /\ proc[p].pc = "polling"
  /\ \E exc \in {None, "Exception"} :
       SetProc(p, [proc[p] EXCEPT !.pc = "finally", !.exc = exc])
  /\ UNCHANGED lockFile

(* a cleanup that removes the marker only when it holds the own pid *)
cleanup_lock_own_only(marker, p) == IF marker = p THEN NoFile ELSE marker

(* cleanup_lock: the marker after LOCK_FILE.unlink(missing_ok=True) *)
cleanup_lock(marker, p) == NoFile

(* lines 2132-2133: finally: cleanup_lock() *)
Finally(p) ==
  /\ proc[p].pc = "finally"
  /\ lockFile' = cleanup_lock(lockFile, p)
  /\ SetProc(p, [proc[p] EXCEPT !.pc = "atexit"])

(* line 2142: the atexit hook runs cleanup_lock, the process ends *)
AtExit(p) ==
  /\ proc[p].pc = "atexit"
  /\ lockFile' = cleanup_lock(lockFile, p)
  /\ SetProc(p, [proc[p] EXCEPT !.pc = "exited"])

(* SIGKILL or power loss: the process ends without running any cleanup *)
Kill(p) ==
  /\ proc[p].pc \in RunningPcs
  /\ SetProc(p, [proc[p] EXCEPT !.pc = "killed"])
  /\ UNCHANGED lockFile

GuardNext ==
  \E p \in Procs :
    \/ Start(p)
    \/ CheckExists(p)
    \/ ReadPid(p)
    \/ Probe(p)
    \/ UnlinkMarker(p)
    \/ WriteMarker(p)
    \/ Validate(p)
    \/ PollEnd(p)
    \/ Finally(p)
    \/ AtExit(p)
    \/ Kill(p)

-----------------------------------------------------------------------------
(* CALLBACK PAYLOADS *)

RECURSIVE Join(_)
(* ":".join(segments) *)
Join(segs) ==
  IF Len(segs) = 0 THEN ""
  ELSE IF Len(segs) = 1 THEN segs[1]
  ELSE segs[1] \o ":" \o Join(Tail(segs))

(* data.split(":", maxsplit): the list of parts *)
Split(data, maxsplit) ==
  IF Len(data) <= maxsplit + 1 THEN data
  ELSE SubSeq(data, 1, maxsplit) \o <<Join(SubSeq(data, maxsplit + 1, Len(data)))>>

(* str.strip() on the ids the modelled payloads carry: two of them are
   padded with blanks *)
Strip(s) ==
  CASE s = " faq " -> "faq"
    [] s = " market_demand" -> "market_demand"
    [] OTHER -> s

(* data.startswith(prefix + ":") *)
StartsWith(data, prefix) == data # None /\ Len(data) >= 2 /\ data[1] = prefix

(* parse_callback: the node id, or None *)
parse_callback(data) ==
  IF data = None \/ data = <<"">> THEN None
  ELSE IF StartsWith(data, "menu") THEN Strip(Split(data, 1)[2])
  ELSE IF StartsWith(data, "v3") \/ StartsWith(data, "v4")
       THEN Strip(Split(data, 1)[2])
  ELSE None

(* the router's filters, lines 1861, 1882, 1937, 1989: the handler an
   event is dispatched to *)
HandlerOf(ev) ==
  IF ev.kind = "message" THEN "cmd_start"
  ELSE IF StartsWith(ev.data, "file") THEN "on_file_callback"
  ELSE IF StartsWith(ev.data, "menu") \/ StartsWith(ev.data, "v3")
            \/ StartsWith(ev.data, "v4") THEN "on_menu_callback"
  ELSE IF StartsWith(ev.data, "toggle") THEN "on_checklist_toggle"
  ELSE None

-----------------------------------------------------------------------------
(* DE-DUPLICATION SETS *)

DEDUP_LIMIT == 200

(* f"{message.chat.id}:{message.message_id}" *)
msg_id(ev) == <<ev.chat, ev.mid>>

(* a fingerprint that leaves out the payload *)
callback_id_without_payload(ev) == <<ev.chat, ev.mid>>

(* f"{cb.message.chat.id}:{cb.message.message_id}:{cb.data}": the string as
   its colon-separated segments; the two ids are integers and hold no
   colon, the payload continues the string with its own segments *)
callback_id(ev) == <<ev.chat, ev.mid>> \o ev.data

(* a marking that forgets to add the fingerprint *)
MarkProcessed_no_add(processed, fp) ==
  IF Cardinality(processed \cup {fp}) > DEDUP_LIMIT THEN {} ELSE processed

(* a marking that never clears the set *)
MarkProcessed_never_clears(processed, fp) == processed \cup {fp}

(* set.add(fp), then clear() when the size is above the limit *)
MarkProcessed(processed, fp) ==
  LET added == processed \cup {fp}
  IN  IF Cardinality(added) > DEDUP_LIMIT THEN {} ELSE added

(* 1 when MarkProcessed clears the set *)
Overflows(processed, fp) ==
  IF Cardinality(processed \cup {fp}) > DEDUP_LIMIT THEN 1 ELSE 0

-----------------------------------------------------------------------------
(* HANDLER COROUTINES                                                      *)
(*                                                                         *)
(* The dispatcher starts one coroutine per inbound event; the k-th event   *)
(* runs in coroutine k.  A coroutine runs without interruption up to its   *)
(* next await of the transport or of a held lock, so one action is the     *)
(* code between two such awaits.  pc names the call the coroutine is       *)
(* suspended in; the action that completes the call draws its outcome.     *)
(* log is the coroutine's completed transport calls, in order.             *)

(* events dispatched in one behaviour *)
MaxEvents == 2

Slots == 1..MaxEvents

Event(kind, user, mid, data, has_message) ==
  [kind |-> kind, user |-> user, chat |-> user, mid |-> mid, data |-> data,
   has_message |-> has_message]

IdleH ==
  [pc |-> "idle", ev |-> None, node_id |-> None, rendered |-> None,
   log |-> <<>>, raised |-> FALSE, dup |-> FALSE, flipped |-> FALSE,
   epoch |-> 0, idx |-> 0, waited |-> FALSE]

Call(call, arg, res) == [call |-> call, arg |-> arg, res |-> res]

SetH(h, frame) == hs' = [hs EXCEPT ![h] = frame]

Logged(h, call, arg, res) == Append(hs[h].log, Call(call, arg, res))

(* the frame of a coroutine that has returned *)
Return(frame) == [frame EXCEPT !.pc = "done", !.rendered = None]

(* the files the process finds on disk: Path.exists() *)
AllFiles == {"Contract Eng (Zambia).docx", "Contract Portu (Angola).pdf",
             "Contract FR (Cameroon).pdf"}

-----------------------------------------------------------------------------
(* PER-USER LOCKS: get_user_lock and asyncio.Lock *)

(* one lock for all users: the acquire waits while any user's lock is held *)
LockFree_global(u) ==
  \A v \in Users : ~locked[v] /\ waiters[v] = <<>>

(* an acquire that never waits *)
LockFree_ignoring_holder(u) == TRUE

(* Lock.acquire returns at once: the lock is not held and no earlier
   coroutine is queued for it *)
LockFree(u) == ~locked[u] /\ waiters[u] = <<>>

(* get_user_lock: the registry after the call *)
get_user_lock(registry, user_id) == registry \cup {user_id}

(* a section that is left without releasing the lock *)
Release_forgotten(u) == locked' = locked

(* "async with user_lock" is left: Lock.release *)
Release(u) == locked' = [locked EXCEPT ![u] = FALSE]

-----------------------------------------------------------------------------
(* on_menu_callback and on_checklist_toggle from the lock to the first
   await: the pc reached, the node to open and the store *)

(* a router that hands an unknown node id on to open_node, whose renderer
   falls back to root *)
MenuSection_render_unknown(ev, store) ==
  LET node_id == parse_callback(ev.data)
  IN  IF node_id = None
        THEN [pc |-> "alert_invalid", node_id |-> None, store |-> store,
              flipped |-> FALSE]
      ELSE [pc |-> "ack", node_id |-> node_id, store |-> store,
            flipped |-> FALSE]

(* lines 1954-1975 *)
MenuSection(ev, store) ==
  LET node_id == parse_callback(ev.data)
  IN  IF node_id = None
        THEN [pc |-> "alert_invalid", node_id |-> None, store |-> store,
              flipped |-> FALSE]
      ELSE IF node_id \notin DOMAIN MENU
        THEN [pc |-> "ack_unknown", node_id |-> node_id, store |-> store,
              flipped |-> FALSE]
      ELSE [pc |-> "ack", node_id |-> node_id, store |-> store,
            flipped |-> FALSE]

(* a toggle handler without the catalog check *)
ToggleSection_no_item_check(ev, store) ==
  LET item_id == Strip(Split(ev.data, 1)[2])
  IN  [pc |-> "ack", node_id |-> CHECKLIST_NODE,
       store |-> toggle_checklist_item(store, ev.user, item_id),
       flipped |-> TRUE]

(* lines 2003-2031 *)
ToggleSection(ev, store) ==
  LET item_id == Strip(Split(ev.data, 1)[2])
      item_exists == \E i \in 1..Len(CatalogItems) : item_id = CatalogItems[i][1]
  IN  IF ~item_exists
        THEN [pc |-> "alert_unknown_item", node_id |-> None, store |-> store,
              flipped |-> FALSE]
      ELSE [pc |-> "ack", node_id |-> CHECKLIST_NODE,
            store |-> toggle_checklist_item(store, ev.user, item_id),
            flipped |-> TRUE]

Section(ev, store) ==
  IF HandlerOf(ev) = "on_menu_callback" THEN MenuSection(ev, store)
  ELSE ToggleSection(ev, store)

(* the coroutine holds the lock and runs to its first await *)
EnterSection(h, frame) ==
  LET s == Section(frame.ev, _checklist_state)
  IN  /\ SetH(h, [frame EXCEPT !.pc = s.pc, !.node_id = s.node_id,
                               !.flipped = s.flipped])
      /\ _checklist_state' = s.store

(* lines 1943-1952 / 1992-2001: the event is dispatched; the coroutine
   returns at once, or takes the user's lock, or queues for it *)
DeliverLocked(ev) ==
  LET h == delivered + 1
      frame == [IdleH EXCEPT !.ev = ev]
      u == ev.user
  IN  /\ delivered < MaxEvents
      /\ delivered' = h
      /\ IF ~ev.has_message \/ u = None
           THEN /\ SetH(h, Return(frame))
                /\ UNCHANGED <<_checklist_state, _user_locks, locked, waiters>>
         ELSE /\ _user_locks' = get_user_lock(_user_locks, u)
              /\ IF LockFree(u)
                   THEN /\ locked' = [locked EXCEPT ![u] = TRUE]
                        /\ EnterSection(h, frame)
                        /\ UNCHANGED waiters
                   ELSE /\ waiters' = [waiters EXCEPT ![u] = Append(@, h)]
                        /\ SetH(h, [frame EXCEPT !.pc = "wait_lock",
                                                 !.waited = TRUE])
                        /\ UNCHANGED <<_checklist_state, locked>>
      /\ UNCHANGED <<_processed_messages, _processed_callbacks, msgClears,
                     cbClears, existing, lockFile, proc, rIn, rOut>>

(* on_menu_callback is dispatched *)
DeliverMenu(E) ==
  \E ev \in E : HandlerOf(ev) = "on_menu_callback" /\ DeliverLocked(ev)

(* on_checklist_toggle is dispatched *)
DeliverToggle(E) ==
  \E ev \in E : HandlerOf(ev) = "on_checklist_toggle" /\ DeliverLocked(ev)

(* the released lock is handed to the coroutine at the head of its queue *)
LockGranted(h) ==
  LET u == hs[h].ev.user
  IN  /\ hs[h].pc = "wait_lock"
      /\ ~locked[u]
      /\ waiters[u] # <<>> /\ Head(waiters[u]) = h
      /\ locked' = [locked EXCEPT ![u] = TRUE]
      /\ waiters' = [waiters EXCEPT ![u] = Tail(@)]
      /\ EnterSection(h, hs[h])
      /\ UNCHANGED <<_processed_messages, _processed_callbacks, _user_locks,
                     delivered, msgClears, cbClears, existing, lockFile, proc, rIn, rOut>>

(* the alert text of the three early returns *)
EarlyNotice(pc) ==
  CASE pc = "alert_invalid" -> "Invalid callback data"
    [] pc = "alert_unknown_item" -> "Unknown checklist item"
    [] pc = "ack_unknown" -> None

(* lines 1958-1962, 1967-1971, 2008-2012, 2018-2022: cb.answer of an early
   return completes; its failure is swallowed; the lock is released *)
EarlyAnswerDone(h) ==
  /\ hs[h].pc \in {"alert_invalid", "alert_unknown_item", "ack_unknown"}
  /\ \E res \in {"ok", "error"} :
       SetH(h, Return([hs[h] EXCEPT
                         !.log = Logged(h, "cb.answer", EarlyNotice(hs[h].pc), res)]))
  /\ Release(hs[h].ev.user)
  /\ UNCHANGED <<_checklist_state, _processed_messages, _processed_callbacks,
                 _user_locks, waiters, delivered, msgClears, cbClears, existing, lockFile, proc, rIn, rOut>>

(* an acknowledgment whose failure ends the handler *)
AckDone_failed_ack_returns(h) ==
  /\ hs[h].pc = "ack"
  /\ \E res \in {"ok", "error"} :
       LET u == hs[h].ev.user
           r == render_node(hs[h].node_id, u, _checklist_state)
           logged == [hs[h] EXCEPT !.log = Logged(h, "cb.answer", None, res)]
       IN  IF res = "error" \/ r.raised # None
             THEN /\ SetH(h, Return(logged))
                  /\ Release(u)
                  /\ UNCHANGED _checklist_state
           ELSE /\ _checklist_state' = render_store(hs[h].node_id, u, _checklist_state)
                /\ SetH(h, [logged EXCEPT !.pc = "edit_text", !.rendered = r])
                /\ UNCHANGED locked
  /\ UNCHANGED <<_processed_messages, _processed_callbacks, _user_locks,
                 waiters, delivered, msgClears, cbClears, existing, lockFile, proc, rIn, rOut>>

(* lines 1974-1981 / 2030-2037: cb.answer completes (a failure is only
   printed), open_node renders the node and suspends in edit_text; an
   exception of render_node is caught by the handler *)
AckDone(h) ==
  /\ hs[h].pc = "ack"
  /\ \E res \in {"ok", "error"} :
       LET u == hs[h].ev.user
           r == render_node(hs[h].node_id, u, _checklist_state)
           logged == [hs[h] EXCEPT !.log = Logged(h, "cb.answer", None, res)]
       IN  /\ _checklist_state' = render_store(hs[h].node_id, u, _checklist_state)
           /\ IF r.raised # None
                THEN /\ SetH(h, Return(logged))
                     /\ Release(u)
                ELSE /\ SetH(h, [logged EXCEPT !.pc = "edit_text", !.rendered = r])
                     /\ UNCHANGED locked
  /\ UNCHANGED <<_processed_messages, _processed_callbacks, _user_locks,
                 waiters, delivered, msgClears, cbClears, existing, lockFile, proc, rIn, rOut>>

(* an open_node that sends a new message on every failure of the edit *)
EditTextDone_always_resend(h) ==
  /\ hs[h].pc = "edit_text"
  /\ \E res \in {"ok", "not_modified", "error"} :
       LET logged == [hs[h] EXCEPT
                        !.log = Logged(h, "edit_text", hs[h].rendered.text, res)]
       IN  IF res = "ok"
             THEN /\ SetH(h, Return(logged))
                  /\ Release(hs[h].ev.user)
           ELSE /\ SetH(h, [logged EXCEPT !.pc = "fallback_answer"])
                /\ UNCHANGED locked
  /\ UNCHANGED <<_checklist_state, _processed_messages, _processed_callbacks,
                 _user_locks, waiters, delivered, msgClears, cbClears, existing, lockFile, proc, rIn, rOut>>

(* open_node lines 1811-1831: edit_text completes *)
EditTextDone(h) ==
  /\ hs[h].pc = "edit_text"
  /\ \E res \in {"ok", "not_modified", "error"} :
       LET logged == [hs[h] EXCEPT
                        !.log = Logged(h, "edit_text", hs[h].rendered.text, res)]
       IN  CASE res = "ok" ->
                  /\ SetH(h, Return(logged))
                  /\ Release(hs[h].ev.user)
             [] res = "not_modified" ->
                  /\ SetH(h, [logged EXCEPT !.pc = "edit_reply_markup"])
                  /\ UNCHANGED locked
             [] res = "error" ->
                  /\ SetH(h, [logged EXCEPT !.pc = "fallback_answer"])
                  /\ UNCHANGED locked
  /\ UNCHANGED <<_checklist_state, _processed_messages, _processed_callbacks,
                 _user_locks, waiters, delivered, msgClears, cbClears, existing, lockFile, proc, rIn, rOut>>

(* a fallback whose failure takes the flip of the toggle handler back *)
FallbackDone_rolls_back(h) ==
  /\ hs[h].pc \in {"edit_reply_markup", "fallback_answer"}
  /\ \E res \in {"ok", "error"} :
       /\ SetH(h, Return([hs[h] EXCEPT
                            !.log = Logged(h, IF hs[h].pc = "edit_reply_markup"
                                                THEN "edit_reply_markup"
                                                ELSE "message.answer",
                                           hs[h].rendered.text, res)]))
       /\ IF res = "error" /\ hs[h].flipped
            THEN _checklist_state'
                   = toggle_checklist_item(_checklist_state, hs[h].ev.user,
                                           Strip(Split(hs[h].ev.data, 1)[2]))
            ELSE UNCHANGED _checklist_state
  /\ Release(hs[h].ev.user)
  /\ UNCHANGED <<_processed_messages, _processed_callbacks,
                 _user_locks, waiters, delivered, msgClears, cbClears, existing, lockFile, proc, rIn, rOut>>

(* open_node lines 1822-1825 and 1828-1831: the fallback call completes;
   its failure is printed *)
FallbackDone(h) ==
  /\ hs[h].pc \in {"edit_reply_markup", "fallback_answer"}
  /\ \E res \in {"ok", "error"} :
       SetH(h, Return([hs[h] EXCEPT
                         !.log = Logged(h, IF hs[h].pc = "edit_reply_markup"
                                             THEN "edit_reply_markup"
                                             ELSE "message.answer",
                                        hs[h].rendered.text, res)]))
  /\ Release(hs[h].ev.user)
  /\ UNCHANGED <<_checklist_state, _processed_messages, _processed_callbacks,
                 _user_locks, waiters, delivered, msgClears, cbClears, existing, lockFile, proc, rIn, rOut>>

-----------------------------------------------------------------------------
(* cmd_start and show_node *)

(* show_node lines 1792-1797: the index of the next file of the node, after
   index i, whose path exists; 0 when there is none *)
NextExistingFile(node, i) ==
  LET later == {j \in (i + 1)..Len(node.files) : node.files[j][2] \in existing}
  IN  IF later = {} THEN 0 ELSE CHOOSE j \in later : \A k \in later : j <= k

(* lines 1864-1878, show_node lines 1785-1789: the /start message is
   dispatched; a seen fingerprint returns, a new one is marked and the root
   is rendered and sent *)
DeliverStart(E) ==
  \E ev \in E :
    LET h == delivered + 1
        frame == [IdleH EXCEPT !.ev = ev, !.epoch = msgClears]
        fp == msg_id(ev)
        r == render_node("root", ev.user, _checklist_state)
    IN  /\ HandlerOf(ev) = "cmd_start"
        /\ delivered < MaxEvents
        /\ delivered' = h
        /\ IF fp \in _processed_messages
             THEN /\ SetH(h, Return([frame EXCEPT !.dup = TRUE]))
                  /\ UNCHANGED <<_processed_messages, msgClears>>
             ELSE /\ _processed_messages' = MarkProcessed(_processed_messages, fp)
                  /\ msgClears' = msgClears + Overflows(_processed_messages, fp)
                  /\ SetH(h, [frame EXCEPT !.pc = "show_answer",
                                           !.node_id = "root", !.rendered = r])
        /\ UNCHANGED <<_checklist_state, _processed_callbacks, _user_locks,
                       locked, waiters, cbClears, existing, lockFile, proc, rIn, rOut>>

(* show_node lines 1789-1797: message.answer or answer_document completes;
   an exception leaves cmd_start; otherwise the next existing file of the
   node is sent *)
ShowNodeDone(h) ==
  /\ hs[h].pc \in {"show_answer", "show_document"}
  /\ \E res \in {"ok", "error"} :
       LET node == MENU[ResolveNodeId(hs[h].node_id)]
           logged == [hs[h] EXCEPT
                        !.log = IF hs[h].pc = "show_answer"
                                  THEN Logged(h, "message.answer", hs[h].rendered.text, res)
                                  ELSE Logged(h, "answer_document",
                                              node.files[hs[h].idx][1], res)]
           next == NextExistingFile(node, hs[h].idx)
       IN  IF res = "error"
             THEN SetH(h, Return([logged EXCEPT !.raised = TRUE]))
           ELSE IF next = 0
             THEN SetH(h, Return(logged))
           ELSE SetH(h, [logged EXCEPT !.pc = "show_document", !.idx = next])
  /\ UNCHANGED <<_checklist_state, _processed_messages, _processed_callbacks,
                 _user_locks, locked, waiters, delivered, msgClears, cbClears,
                 existing, lockFile, proc, rIn, rOut>>

-----------------------------------------------------------------------------
(* on_file_callback *)

(* a validation that does not look for the file on disk *)
FileRequest_no_exists_check(ev) ==
  LET parts == Split(ev.data, 2)
      node_id == parts[2]
      file_title == parts[3]
      files == IF node_id \in DOMAIN MENU THEN MENU[node_id].files ELSE <<>>
      hits == {i \in 1..Len(files) : files[i][1] = file_title}
      first == CHOOSE i \in hits : \A k \in hits : i <= k
  IN  IF Len(parts) # 3
        THEN [send |-> FALSE, notice |-> "Invalid file request format"]
      ELSE IF files = <<>> \/ hits = {}
        THEN [send |-> FALSE, notice |-> "File not found"]
      ELSE [send |-> TRUE, notice |-> None, title |-> file_title,
            path |-> files[first][2]]

(* lines 1908-1925: what the request is answered with: the alert text of a
   rejected request, or the title of the file to send *)
FileRequest(ev) ==
  LET parts == Split(ev.data, 2)
      node_id == parts[2]
      file_title == parts[3]
      files == IF node_id \in DOMAIN MENU THEN MENU[node_id].files ELSE <<>>
      hits == {i \in 1..Len(files) : files[i][1] = file_title}
      first == CHOOSE i \in hits : \A k \in hits : i <= k
  IN  IF Len(parts) # 3
        THEN [send |-> FALSE, notice |-> "Invalid file request format"]
      ELSE IF files = <<>>
        THEN [send |-> FALSE, notice |-> "File not found"]
      ELSE IF hits = {} \/ files[first][2] \notin existing
        THEN [send |-> FALSE, notice |-> "File not found"]
      ELSE [send |-> TRUE, notice |-> None, title |-> file_title,
            path |-> files[first][2]]

(* a membership test that never finds the fingerprint *)
AlreadyProcessed_never(processed, fp) == FALSE

(* line 1892: the fingerprint was handled before *)
AlreadyProcessed(processed, fp) == fp \in processed

(* lines 1885-1925: the file request is dispatched *)
DeliverFile(E) ==
  \E ev \in E :
    LET h == delivered + 1
        frame == [IdleH EXCEPT !.ev = ev, !.epoch = cbClears]
        fp == callback_id(ev)
    IN  /\ HandlerOf(ev) = "on_file_callback"
        /\ delivered < MaxEvents
        /\ delivered' = h
        /\ IF ~ev.has_message
             THEN /\ SetH(h, Return(frame))
                  /\ UNCHANGED <<_processed_callbacks, cbClears>>
           ELSE IF AlreadyProcessed(_processed_callbacks, fp)
             THEN /\ SetH(h, [frame EXCEPT !.pc = "dup_answer", !.dup = TRUE])
                  /\ UNCHANGED <<_processed_callbacks, cbClears>>
           ELSE /\ _processed_callbacks' = MarkProcessed(_processed_callbacks, fp)
                /\ cbClears' = cbClears + Overflows(_processed_callbacks, fp)
                /\ SetH(h, [frame EXCEPT
                              !.pc = IF FileRequest(ev).send
                                       THEN "file_document" ELSE "file_alert"])
        /\ UNCHANGED <<_checklist_state, _processed_messages, _user_locks,
                       locked, waiters, msgClears, existing, lockFile, proc, rIn, rOut>>

(* lines 1893-1897: the duplicate is acknowledged; a failure is swallowed *)
FileDupAnswerDone(h) ==
  /\ hs[h].pc = "dup_answer"
  /\ \E res \in {"ok", "error"} :
       SetH(h, Return([hs[h] EXCEPT !.log = Logged(h, "cb.answer", None, res)]))
  /\ UNCHANGED <<_checklist_state, _processed_messages, _processed_callbacks,
                 _user_locks, locked, waiters, delivered, msgClears, cbClears,
                 existing, lockFile, proc, rIn, rOut>>

(* the call a suspended on_file_callback is in, and its argument *)
FileCall(frame) ==
  CASE frame.pc = "file_alert" ->
         [call |-> "cb.answer", arg |-> FileRequest(frame.ev).notice]
    [] frame.pc = "file_document" ->
         [call |-> "answer_document", arg |-> FileRequest(frame.ev).title]
    [] frame.pc = "file_answer" ->
         [call |-> "cb.answer", arg |-> None]
    [] frame.pc = "file_error_alert" ->
         [call |-> "cb.answer",
          arg |-> "An error occurred while loading the file"]

(* lines 1906-1933: a call inside the try block completes; an exception
   goes to the except block, whose own cb.answer is not guarded *)
FileCallDone(h) ==
  /\ hs[h].pc \in {"file_alert", "file_document", "file_answer",
                   "file_error_alert"}
  /\ \E res \in {"ok", "error"} :
       LET c == FileCall(hs[h])
           logged == [hs[h] EXCEPT !.log = Logged(h, c.call, c.arg, res)]
       IN  SetH(h,
             CASE res = "error" /\ hs[h].pc = "file_error_alert" ->
                    Return([logged EXCEPT !.raised = TRUE])
               [] res = "error" /\ hs[h].pc # "file_error_alert" ->
                    [logged EXCEPT !.pc = "file_error_alert"]
               [] res = "ok" /\ hs[h].pc = "file_document" ->
                    [logged EXCEPT !.pc = "file_answer"]
               [] res = "ok" /\ hs[h].pc # "file_document" ->
                    Return(logged))
  /\ UNCHANGED <<_checklist_state, _processed_messages, _processed_callbacks,
                 _user_locks, locked, waiters, delivered, msgClears, cbClears,
                 existing, lockFile, proc, rIn, rOut>>

-----------------------------------------------------------------------------
(* SPECIFICATIONS *)

(* fingerprints of k file requests and of k /start messages handled before
   the behaviour starts, all from a chat of their own *)
OldCallbacks(k) ==
  {<<"u0", i, "file", "materials_contracts", "Contract Eng (Zambia)">> :
     i \in 1..k}

OldMessages(k) == {<<"u0", i>> : i \in 1..k}

HandlersInit(prefills) ==
  /\ _checklist_state = EmptyDict
  /\ \E k \in prefills :
       /\ _processed_messages = OldMessages(k)
       /\ _processed_callbacks = OldCallbacks(k)
  /\ _user_locks = {}
  /\ locked = [u \in Users |-> FALSE]
  /\ waiters = [u \in Users |-> <<>>]
  /\ hs = [h \in Slots |-> IdleH]
  /\ delivered = 0
  /\ msgClears = 0
  /\ cbClears = 0
  /\ existing = AllFiles \ {"Contract FR (Cameroon).pdf"}

GuardIdle ==
  /\ lockFile = NoFile
  /\ proc = [p \in Procs |-> IdleFrame]

HandlersIdle ==
  /\ HandlersInit({0})

(* navigation and checklist events of two users *)
MainEvents ==
  { Event("callback", "u1", 7, <<"toggle", "market_demand">>, TRUE),
    Event("callback", "u1", 7, <<"toggle", "partner_model">>, TRUE),
    Event("callback", "u2", 9, <<"toggle", " market_demand">>, TRUE),
    Event("callback", "u1", 7, <<"toggle", "no_such_item">>, TRUE),
    Event("callback", "u1", 7, <<"menu", "start_step_7">>, TRUE),
    Event("callback", "u2", 9, <<"v3", "nope">>, TRUE) }

Init ==
  /\ HandlersInit({0})
  /\ GuardIdle
  /\ RenderInit

Next ==
  \/ DeliverMenu(MainEvents)
  \/ DeliverToggle(MainEvents)
  \/ \E h \in Slots : LockGranted(h)
  \/ \E h \in Slots : EarlyAnswerDone(h)
  \/ \E h \in Slots : AckDone(h)
  \/ \E h \in Slots : EditTextDone(h)
  \/ \E h \in Slots : FallbackDone(h)

Spec == Init /\ [][Next]_vars

(* /start messages, file requests and a toggle of one user, delivered to a
   process whose de-duplication sets are empty or one insertion away from
   the limit *)
DedupEvents ==
  { Event("message", "u1", 300, <<"/start">>, TRUE),
    Event("callback", "u1", 301,
          <<"file", "materials_contracts", "Contract Eng (Zambia)">>, TRUE),
    Event("callback", "u1", 301,
          <<"file", "materials_contracts", "Contract FR (Cameroon)">>, TRUE),
    Event("callback", "u1", 301, <<"toggle", "market_demand">>, TRUE) }

DedupPrefills == {0, DEDUP_LIMIT - 1, DEDUP_LIMIT}

DedupInit ==
  /\ HandlersInit(DedupPrefills)
  /\ GuardIdle
  /\ RenderInit

DedupNext ==
  \/ DeliverStart(DedupEvents)
  \/ DeliverFile(DedupEvents)
  \/ DeliverToggle(DedupEvents)
  \/ \E h \in Slots : LockGranted(h)
  \/ \E h \in Slots : ShowNodeDone(h)
  \/ \E h \in Slots : FileDupAnswerDone(h)
  \/ \E h \in Slots : FileCallDone(h)
  \/ \E h \in Slots : AckDone(h)
  \/ \E h \in Slots : EditTextDone(h)
  \/ \E h \in Slots : FallbackDone(h)

SpecDedup == DedupInit /\ [][DedupNext]_vars

GuardSpecInit ==
  /\ GuardInit
  /\ HandlersIdle
  /\ RenderInit

SpecGuard == GuardSpecInit /\ [][GuardNext]_vars

RenderSpecInit ==
  /\ RenderInit
  /\ HandlersIdle
  /\ GuardIdle

RenderNext == RenderCall

SpecRender == RenderSpecInit /\ [][RenderNext]_vars

(* navigation and toggles of two users: a node with file references, an
   unknown node, a catalog item and an unknown item *)
NavEvents ==
  { Event("callback", "u1", 7, <<"menu", "materials_contracts">>, TRUE),
    Event("callback", "u1", 7, <<"toggle", "no_such_item">>, TRUE),
    Event("callback", "u2", 9, <<"toggle", "partner_model">>, TRUE),
    Event("callback", "u2", 9, <<"v4", "nope">>, TRUE) }

NavNext ==
  \/ DeliverMenu(NavEvents)
  \/ DeliverToggle(NavEvents)
  \/ \E h \in Slots : LockGranted(h)
  \/ \E h \in Slots : EarlyAnswerDone(h)
  \/ \E h \in Slots : AckDone(h)
  \/ \E h \in Slots : EditTextDone(h)
  \/ \E h \in Slots : FallbackDone(h)

SpecNav == Init /\ [][NavNext]_vars

(* a step of coroutine h: its lock is handed to it, or the transport call
   it is suspended in returns or raises *)
StepOf(h) ==
  \/ LockGranted(h)
  \/ EarlyAnswerDone(h)
  \/ AckDone(h)
  \/ EditTextDone(h)
  \/ FallbackDone(h)

(* a step of some coroutine of user u *)
StepsOf(u) ==
  \E h \in Slots : hs[h].pc # "idle" /\ hs[h].ev.user = u /\ StepOf(h)

(* the transport calls of user u2's handlers return and the event loop
   resumes them; those of user u1 may never return *)
SpecOtherUser == Init /\ [][NavNext]_vars /\ WF_vars(StepsOf("u2"))

(* every transport call returns and the event loop resumes its coroutine *)
SpecReturning ==
  Init /\ [][NavNext]_vars /\ WF_vars(StepsOf("u1")) /\ WF_vars(StepsOf("u2"))

(* /start messages and file requests that agree in conversation, message
   and payload, or differ in exactly one of them *)
FingerprintEvents ==
  { Event("message", "u1", 300, <<"/start">>, TRUE),
    Event("message", "u1", 301, <<"/start">>, TRUE),
    Event("message", "u2", 300, <<"/start">>, TRUE),
    Event("callback", "u1", 300,
          <<"file", "materials_contracts", "Contract Eng (Zambia)">>, TRUE),
    Event("callback", "u1", 301,
          <<"file", "materials_contracts", "Contract Eng (Zambia)">>, TRUE),
    Event("callback", "u2", 300,
          <<"file", "materials_contracts", "Contract Eng (Zambia)">>, TRUE),
    Event("callback", "u1", 300,
          <<"file", "materials_contracts", "Contract FR (Cameroon)">>, TRUE) }

FingerprintNext ==
  \/ DeliverStart(FingerprintEvents)
  \/ DeliverFile(FingerprintEvents)
  \/ \E h \in Slots : ShowNodeDone(h)
  \/ \E h \in Slots : FileDupAnswerDone(h)
  \/ \E h \in Slots : FileCallDone(h)

SpecFingerprint == Init /\ [][FingerprintNext]_vars

(* file requests: a file that is on disk, one that may be missing, a label
   the node does not have, a label with a colon in it, a node without
   files, an unknown node and a token of two segments *)
FileEvents ==
  { Event("callback", "u1", 301,
          <<"file", "materials_contracts", "Contract Eng (Zambia)">>, TRUE),
    Event("callback", "u1", 301,
          <<"file", "materials_contracts", "Contract FR (Cameroon)">>, TRUE),
    Event("callback", "u1", 301,
          <<"file", "materials_contracts", "Contract Eng (Zambia)", "pdf">>, TRUE),
    Event("callback", "u2", 302,
          <<"file", "materials_contracts", "Price list">>, TRUE),
    Event("callback", "u2", 302,
          <<"file", "faq", "Contract Eng (Zambia)">>, TRUE),
    Event("callback", "u2", 302,
          <<"file", "nope", "Contract Eng (Zambia)">>, TRUE),
    Event("callback", "u2", 302, <<"file", "materials_contracts">>, TRUE) }

(* the attachments directory holds every file, or lacks one of them *)
FileInit ==
  /\ _checklist_state = EmptyDict
  /\ _processed_messages = {}
  /\ _processed_callbacks = {}
  /\ _user_locks = {}
  /\ locked = [u \in Users |-> FALSE]
  /\ waiters = [u \in Users |-> <<>>]
  /\ hs = [h \in Slots |-> IdleH]
  /\ delivered = 0
  /\ msgClears = 0
  /\ cbClears = 0
  /\ existing \in {AllFiles, AllFiles \ {"Contract FR (Cameroon).pdf"}}
  /\ GuardIdle
  /\ RenderInit

FileNext ==
  \/ DeliverFile(FileEvents)
  \/ \E h \in Slots : FileDupAnswerDone(h)
  \/ \E h \in Slots : FileCallDone(h)

SpecFile == FileInit /\ [][FileNext]_vars

-----------------------------------------------------------------------------
(* PROPERTIES *)

Started(h) == hs[h].pc # "idle"

Done(h) == hs[h].pc = "done"

IsHandler(h, name) == Started(h) /\ HandlerOf(hs[h].ev) = name

(* the coroutine holds its user's lock: it is between acquire and release *)
InSection(h) ==
  hs[h].pc \in {"alert_invalid", "alert_unknown_item", "ack_unknown", "ack",
                "edit_text", "edit_reply_markup", "fallback_answer"}

(* the item a toggle event names *)
ItemOf(ev) == Strip(Split(ev.data, 1)[2])

(* both coroutines handle a callback with one and the same fingerprint *)
SameCallback(i, j) ==
  /\ Started(i) /\ Started(j)
  /\ hs[i].ev.kind = "callback" /\ hs[j].ev.kind = "callback"
  /\ hs[i].ev.has_message /\ hs[j].ev.has_message
  /\ callback_id(hs[i].ev) = callback_id(hs[j].ev)

(* both coroutines handle a /start message with one and the same fingerprint *)
SameMessage(i, j) ==
  /\ Started(i) /\ Started(j)
  /\ hs[i].ev.kind = "message" /\ hs[j].ev.kind = "message"
  /\ msg_id(hs[i].ev) = msg_id(hs[j].ev)

(* the coroutine did nothing but acknowledge, once and without a notice *)
AckOnly(h) ==
  /\ ~hs[h].flipped
  /\ Len(hs[h].log) = 1
  /\ hs[h].log[1].call = "cb.answer"
  /\ hs[h].log[1].arg = None

(* the coroutine passed the duplicate check and went on to handle the event *)
Processed(h) == Started(h) /\ ~hs[h].dup

(* C1 (as stated): when one fingerprinted callback (navigation, toggle or
   file request) is delivered twice, the second delivery is acknowledged
   only: no flip, no render, no file. *)
C1_SecondDeliveryAckOnly ==
  \A i \in Slots, j \in Slots :
    (i < j /\ SameCallback(i, j) /\ Done(j)) => AckOnly(j)

(* C1 (amended): only file requests are de-duplicated.  A file request
   whose fingerprint was delivered before, with no clearing of the
   processed-callback set since that delivery was dispatched, takes the
   duplicate branch, and a duplicate is acknowledged exactly once, with no
   notice, no file and no exception.  A navigation or toggle event is
   handled on every delivery: each delivery of a toggle of a catalog item
   flips the item. *)
C1_FileDuplicateAckOnly ==
  /\ \A i \in Slots, j \in Slots :
       (/\ i < j
        /\ SameCallback(i, j)
        /\ IsHandler(j, "on_file_callback")
        /\ hs[i].epoch = hs[j].epoch) => hs[j].dup
  /\ \A j \in Slots :
       (IsHandler(j, "on_file_callback") /\ hs[j].dup /\ Done(j))
         => (AckOnly(j) /\ ~hs[j].raised)
  /\ \A j \in Slots :
       (/\ IsHandler(j, "on_checklist_toggle")
        /\ ItemOf(hs[j].ev) \in CatalogIds
        /\ hs[j].pc # "wait_lock") => (hs[j].flipped /\ ~hs[j].dup)

(* a file was sent for the first delivery and the second one, of the same
   fingerprint, was only acknowledged *)
C1_Witness ==
  \E i \in Slots, j \in Slots :
    /\ i < j
    /\ SameCallback(i, j)
    /\ IsHandler(j, "on_file_callback")
    /\ \E k \in 1..Len(hs[i].log) :
         hs[i].log[k].call = "answer_document" /\ hs[i].log[k].res = "ok"
    /\ Done(j) /\ hs[j].dup /\ AckOnly(j)

(* C2 (as stated): once a /start message or a file request with a given
   fingerprint has been processed, no later delivery with that fingerprint
   is processed again. *)
C2_AtMostOnceEver ==
  \A i \in Slots, j \in Slots :
    (/\ i < j
     /\ \/ SameMessage(i, j)
        \/ SameCallback(i, j) /\ IsHandler(j, "on_file_callback")
     /\ Processed(i)) => ~Processed(j)

(* C2 (amended): a /start message or file request is processed at most
   once for as long as its de-duplication set is not cleared: of two
   deliveries with one fingerprint that were dispatched with the same
   number of clearings behind them, at most one is processed.  (An
   insertion that takes the set above 200 entries clears it, the inserted
   fingerprint included.) *)
C2_AtMostOncePerEpoch ==
  \A i \in Slots, j \in Slots :
    (/\ i < j
     /\ \/ SameMessage(i, j)
        \/ SameCallback(i, j) /\ IsHandler(j, "on_file_callback")
     /\ hs[i].epoch = hs[j].epoch
     /\ Processed(i)) => ~Processed(j)

(* one fingerprint was delivered twice to a process whose set already held
   earlier fingerprints, and the second delivery was skipped *)
C2_Witness ==
  \E i \in Slots, j \in Slots :
    /\ i < j
    /\ SameMessage(i, j)
    /\ Processed(i) /\ hs[j].dup
    /\ hs[i].epoch = hs[j].epoch
    /\ Cardinality(_processed_messages) = DEDUP_LIMIT

(* C3: at most one navigation or toggle coroutine of a user is between the
   acquisition and the release of that user's lock, and the lock is then
   marked held. *)
C3_OneHandlerPerUserInSection ==
  /\ \A i \in Slots, j \in Slots :
       (i # j /\ InSection(i) /\ InSection(j))
         => hs[i].ev.user # hs[j].ev.user
  /\ \A i \in Slots : InSection(i) => locked[hs[i].ev.user]

(* one coroutine is inside the section while a second one of the same user
   waits for the lock *)
C3_Witness ==
  \E i \in Slots, j \in Slots :
    /\ InSection(i)
    /\ hs[j].pc = "wait_lock"
    /\ hs[i].ev.user = hs[j].ev.user

(* the coroutines that have flipped item `it` of user u *)
Flips(u, it) ==
  {h \in Slots : /\ IsHandler(h, "on_checklist_toggle")
                 /\ hs[h].flipped
                 /\ hs[h].ev.user = u
                 /\ ItemOf(hs[h].ev) = it}

StoredValue(u, it) ==
  IF u \in DOMAIN _checklist_state THEN StateGet(_checklist_state[u], it)
  ELSE FALSE

(* C4: no toggle is lost: every toggle of a catalog item that got the lock
   has flipped its item, and the stored value of every item of every user
   is the parity of the number of toggles of it handled so far, whatever
   the interleaving. *)
C4_NoLostUpdate ==
  /\ \A h \in Slots :
       (/\ IsHandler(h, "on_checklist_toggle")
        /\ ItemOf(hs[h].ev) \in CatalogIds
        /\ hs[h].pc # "wait_lock") => hs[h].flipped
  /\ \A u \in Users, it \in CatalogIds :
       StoredValue(u, it) = (Cardinality(Flips(u, it)) % 2 = 1)

(* two toggles of one user for two different items overlapped (the second
   waited for the lock), both have completed and both items are set *)
C4_Witness ==
  \E i \in Slots, j \in Slots :
    /\ IsHandler(i, "on_checklist_toggle") /\ IsHandler(j, "on_checklist_toggle")
    /\ hs[i].ev.user = hs[j].ev.user
    /\ ItemOf(hs[i].ev) # ItemOf(hs[j].ev)
    /\ hs[j].waited
    /\ Done(i) /\ Done(j)
    /\ StoredValue(hs[i].ev.user, ItemOf(hs[i].ev))
    /\ StoredValue(hs[j].ev.user, ItemOf(hs[j].ev))

(* the dict of user u in store s, absent users having none *)
DictOf(s, u) == IF u \in DOMAIN s THEN s[u] ELSE EmptyDict

(* C5: the step in which a coroutine of user A flips item `it` leaves every
   other user's entry of the store as it was (absent stays absent), leaves
   A's other items as they were, and negates A's value of `it`. *)
C5_ToggleFrame ==
  [][\A h \in Slots :
       (~hs[h].flipped /\ hs'[h].flipped) =>
         LET A  == hs'[h].ev.user
             it == ItemOf(hs'[h].ev)
         IN  /\ \A B \in Users \ {A} :
                  /\ (B \in DOMAIN _checklist_state') = (B \in DOMAIN _checklist_state)
                  /\ DictOf(_checklist_state', B) = DictOf(_checklist_state, B)
             /\ A \in DOMAIN _checklist_state'
             /\ DOMAIN _checklist_state'[A]
                  = DOMAIN DictOf(_checklist_state, A) \cup {it}
             /\ \A k \in DOMAIN _checklist_state'[A] \ {it} :
                  _checklist_state'[A][k] = DictOf(_checklist_state, A)[k]
             /\ _checklist_state'[A][it]
                  = ~StateGet(DictOf(_checklist_state, A), it)]_vars

(* user u1 has toggled an item after user u2 had set one *)
C5_Witness ==
  /\ "u2" \in DOMAIN _checklist_state
  /\ StoredValue("u2", "market_demand")
  /\ \E h \in Slots :
       /\ h > 1
       /\ IsHandler(h, "on_checklist_toggle")
       /\ hs[h].ev.user = "u1"
       /\ hs[h].flipped

(* the process is past check_single_instance and has not begun to shut down *)
PastGuard(p) == proc[p].pc \in {"main", "polling"}

(* C6 (as stated): no two processes are past the single-instance guard at
   the same time. *)
C6_AtMostOnePastGuard ==
  \A p \in Procs, q \in Procs : (PastGuard(p) /\ PastGuard(q)) => p = q

(* C7 (as stated): a process that found the marker's pid to belong to a
   live process has exited fatally. *)
C7_LiveMarkerAborts ==
  \A p \in Procs : proc[p].found = "alive" => proc[p].pc = "aborted"

(* C8: a process that found the marker stale or malformed does not abort;
   its next step removes the marker, the one after writes its own pid into
   it and enters main. *)
C8_StaleMarkerReplaced ==
  [][\A p \in Procs :
       LET f == proc[p]
           g == proc'[p]
           moved == g.pc # f.pc /\ g.pc # "killed"
       IN  /\ g.found \in {"stale", "malformed"} => g.pc # "aborted"
           /\ (f.found \in {"stale", "malformed"} /\ f.pc = "unlink" /\ moved)
                => (lockFile' = NoFile /\ g.pc = "write")
           /\ (f.found \in {"stale", "malformed"} /\ f.pc = "write" /\ moved)
                => (lockFile' = p /\ g.pc = "main")]_vars

(* a process that found a stale or malformed marker is in main and the
   marker holds its pid *)
C8_Witness ==
  \E p \in Procs :
    /\ proc[p].found \in {"stale", "malformed"}
    /\ proc[p].pc = "main"
    /\ lockFile = p

(* C9: a process that passed the guard ends only through the finally block
   and the atexit hook, on a normal return, on an exception and on
   SystemExit alike, and each of the two leaves no marker behind. *)
C9_MarkerRemovedOnShutdown ==
  [][\A p \in Procs :
       LET f == proc[p]
           g == proc'[p]
           moved == g.pc # f.pc /\ g.pc # "killed"
       IN  /\ (f.pc = "main" /\ moved) => g.pc \in {"polling", "finally"}
           /\ (f.pc = "polling" /\ moved) => g.pc = "finally"
           /\ (f.pc = "finally" /\ moved) => (g.pc = "atexit" /\ lockFile' = NoFile)
           /\ (f.pc = "atexit" /\ moved) => (g.pc = "exited" /\ lockFile' = NoFile)
           /\ (g.pc = "exited" /\ moved) => f.pc = "atexit"]_vars

(* a process whose menu validation exited fatally has ended and no marker
   is left *)
C9_Witness ==
  \E p \in Procs :
    /\ proc[p].pc = "exited"
    /\ proc[p].exc = "SystemExit"
    /\ lockFile = NoFile

(* C10: for a node id that is not in the Content Tree and any user id,
   render_node returns what it returns for root, for every user id; the
   substitution of root for an unknown id changes nothing when applied to
   its own result. *)
C10_UnknownRendersRoot ==
  (rIn # NoCall /\ rIn.node_id \notin DOMAIN MENU) =>
    /\ rOut.raised = None
    /\ \A u \in Users \cup {None} : rOut = render_node("root", u, rIn.store)
    /\ rOut.text = MENU["root"].text
    /\ ResolveNodeId(ResolveNodeId(rIn.node_id)) = ResolveNodeId(rIn.node_id)

(* render_node was called with an unknown node id for a user and returned
   the main menu *)
C10_Witness ==
  /\ rIn.node_id \in UnknownNodeIds
  /\ rIn.user_id \in Users
  /\ rOut.raised = None
  /\ rOut.keyboard = build_main_menu

(* render_node has been called *)
Called == rIn # NoCall

(* C11 (as stated): render_node never raises, whatever the node id and the
   user id, an absent user id included. *)
C11_NeverRaises ==
  Called => rOut.raised = None

(* C11 (amended): render_node raises in one case only, the checklist node
   asked for without a user id (ValueError); for every other node id, known
   or unknown, and every user id, absent or not, it returns a text and a
   keyboard that ends in a navigation row. *)
C11_RaisesOnlyChecklistWithoutUser ==
  Called =>
    /\ (rOut.raised # None)
         = (ResolveNodeId(rIn.node_id) = CHECKLIST_NODE /\ rIn.user_id = None)
    /\ rOut.raised # None => rOut.raised = "ValueError"
    /\ rOut.raised = None => (rOut.text # <<>> /\ Len(rOut.keyboard) >= 1)

(* the checklist node was asked for without a user id and render_node
   raised ValueError *)
C11_Witness ==
  /\ rIn.node_id = CHECKLIST_NODE
  /\ rIn.user_id = None
  /\ rOut.raised = "ValueError"

(* the last row of a keyboard *)
LastRow(keyboard) == keyboard[Len(keyboard)]

(* the row holds a button with this label whose token parses to target *)
HasNavButton(row, label, target) ==
  \E i \in 1..Len(row) :
    /\ row[i].text = <<label>>
    /\ "callback_data" \in DOMAIN row[i]
    /\ parse_callback(row[i].callback_data) = target

(* the node the Back button of a node is to lead to *)
BackTarget(node) ==
  IF node.parent_id # None /\ node.parent_id \in DOMAIN MENU
  THEN node.parent_id ELSE "root"

(* the last row of the keyboard is Back to the node's parent (root when the
   parent is missing or not in the tree) and Home to root *)
NavRowOk(keyboard, node) ==
  /\ Len(keyboard) >= 1
  /\ HasNavButton(LastRow(keyboard), "Home", "root")
  /\ HasNavButton(LastRow(keyboard), "Back", BackTarget(node))
  /\ BackTarget(node) \in DOMAIN MENU

(* C12: for every node of the Content Tree (root, regular, checklist) the
   last row of the keyboard that is rendered holds Home, leading to root,
   and Back, leading to the node's parent, which is in the tree; a node
   whose parent is absent or names no node gets Back to root. *)
C12_NavigationRow ==
  (Called /\ rIn.node_id \in DOMAIN MENU) =>
    LET node == MENU[rIn.node_id]
    IN  /\ rOut.raised = None => NavRowOk(rOut.keyboard, node)
        /\ NavRowOk(build_menu_keyboard(node, rIn.user_id, rIn.store), node)
        /\ \A q \in {None, "no_such_parent"} :
             LET orphan == [node EXCEPT !.parent_id = q]
                 kb == build_menu_keyboard(orphan, rIn.user_id, rIn.store)
             IN  /\ NavRowOk(kb, orphan)
                 /\ HasNavButton(LastRow(kb), "Back", "root")

(* the checklist node was rendered for a user whose state holds a checked
   item: the keyboard ends in Back to the node's parent, which is not root *)
C12_Witness ==
  /\ rIn.node_id = CHECKLIST_NODE
  /\ rIn.user_id = "u1"
  /\ "u1" \in DOMAIN rIn.store
  /\ StateGet(rIn.store["u1"], "market_demand")
  /\ rOut.raised = None
  /\ HasNavButton(LastRow(rOut.keyboard), "Back", MENU[CHECKLIST_NODE].parent_id)
  /\ MENU[CHECKLIST_NODE].parent_id # "root"

(* the calls that put a rendering on the display surface *)
UpdateCalls == {"edit_text", "edit_reply_markup", "message.answer"}

(* the coroutine handles a navigation event whose token is well formed and
   names no node of the Content Tree *)
UnknownTarget(h) ==
  /\ IsHandler(h, "on_menu_callback")
  /\ hs[h].ev.has_message
  /\ parse_callback(hs[h].ev.data) # None
  /\ parse_callback(hs[h].ev.data) \notin DOMAIN MENU

(* no call of the coroutine carried an alert text *)
NoAlert(h) ==
  \A k \in 1..Len(hs[h].log) :
    hs[h].log[k].call = "cb.answer" => hs[h].log[k].arg = None

(* C13 (as stated): a navigation event with a well-formed token for an
   unknown node ends with the display surface showing the root rendering,
   and without an alert. *)
C13_UnknownNodeShowsRoot ==
  \A h \in Slots :
    (UnknownTarget(h) /\ Done(h)) =>
      /\ NoAlert(h)
      /\ \E k \in 1..Len(hs[h].log) :
           /\ hs[h].log[k].call \in UpdateCalls
           /\ hs[h].log[k].arg = MENU["root"].text

(* C13 (amended): a navigation event with a well-formed token for an
   unknown node is acknowledged once, without an alert, and that is all:
   the display surface is not updated (nothing is rendered, root
   included), no item is flipped and nothing is raised. *)
C13_UnknownNodeAckOnly ==
  \A h \in Slots :
    UnknownTarget(h) =>
      /\ NoAlert(h)
      /\ \A k \in 1..Len(hs[h].log) : hs[h].log[k].call \notin UpdateCalls
      /\ ~hs[h].flipped /\ ~hs[h].raised
      /\ Done(h) => AckOnly(h)

(* a legacy token for an unknown node was handled to the end with a single
   acknowledgment *)
C13_Witness ==
  \E h \in Slots :
    /\ UnknownTarget(h)
    /\ hs[h].ev.data = <<"v3", "nope">>
    /\ Done(h)
    /\ AckOnly(h)
    /\ hs[h].log[1].res = "ok"

(* the coroutine handles a navigation event whose node is in the tree *)
KnownTarget(h) ==
  /\ IsHandler(h, "on_menu_callback")
  /\ hs[h].ev.has_message
  /\ parse_callback(hs[h].ev.data) \in DOMAIN MENU

(* C15: in the navigation handler, for a known node, the first transport
   call is the acknowledgment, every update of the display surface comes
   after it, and the update (edit_text) is attempted whether the
   acknowledgment succeeded or failed; the acknowledgment stands whatever
   the outcome of the update. *)
C15_AckBeforeUpdate ==
  \A h \in Slots :
    KnownTarget(h) =>
      LET log == hs[h].log
      IN  /\ Len(log) >= 1 => (log[1].call = "cb.answer" /\ log[1].arg = None)
          /\ \A k \in 1..Len(log) : log[k].call \in UpdateCalls => k > 1
          /\ hs[h].pc \in {"edit_text", "edit_reply_markup", "fallback_answer"}
               => Len(log) >= 1
          /\ Done(h) => (Len(log) >= 2 /\ log[2].call = "edit_text")
          /\ ~hs[h].raised

(* the acknowledgment failed, the update was attempted all the same, and it
   failed too *)
C15_Witness ==
  \E h \in Slots :
    /\ KnownTarget(h)
    /\ Done(h)
    /\ hs[h].log[1].call = "cb.answer" /\ hs[h].log[1].res = "error"
    /\ hs[h].log[2].call = "edit_text" /\ hs[h].log[2].res = "error"

(* the frame is of a toggle coroutine whose item is not in the catalog *)
UnknownToggle(frame) ==
  /\ frame.pc # "idle"
  /\ HandlerOf(frame.ev) = "on_checklist_toggle"
  /\ frame.ev.has_message
  /\ ItemOf(frame.ev) \notin CatalogIds

(* C18: a toggle of an item id that is not in the catalog leaves the
   checklist state of every user as it was in every step the handler
   takes, makes one transport call only, the alert "Unknown checklist
   item", renders nothing and raises nothing. *)
C18_UnknownItemRejected ==
  [][\A h \in Slots :
       UnknownToggle(hs'[h]) =>
         LET log == hs'[h].log
         IN  /\ hs'[h] # hs[h] => _checklist_state' = _checklist_state
             /\ ~hs'[h].flipped /\ ~hs'[h].raised
             /\ \A k \in 1..Len(log) :
                  /\ log[k].call = "cb.answer"
                  /\ log[k].arg = "Unknown checklist item"
             /\ hs'[h].pc = "done" => Len(log) = 1]_vars

(* a toggle of an unknown item was rejected after another toggle of the
   same user had set an item, which is still set *)
C18_Witness ==
  \E h \in Slots :
    /\ UnknownToggle(hs[h])
    /\ Done(h)
    /\ hs[h].log[1].arg = "Unknown checklist item"
    /\ hs[h].log[1].res = "ok"
    /\ StoredValue(hs[h].ev.user, "market_demand")

(* the catalog items that the handled toggles of user u have flipped an odd
   number of times *)
OddItems(u) ==
  {it \in CatalogIds : Cardinality(Flips(u, it)) % 2 = 1}

(* the text the coroutine put on the display surface with edit_text *)
EditedText(h) == hs[h].log[2].arg

(* the progress text "x / N completed" *)
ProgressText(x) == <<"Progress", x, Len(CatalogItems)>>

(* C19: toggling an item twice restores what the user reads: the progress
   text of a user counts the items toggled an odd number of times, out of
   the N catalog items; a user all of whose toggles pair up reads every
   item unchecked and "0 / N completed"; and of two toggles of one item by
   a user with no other toggle, the first re-renders "1 / N completed" and
   the second "0 / N completed". *)
C19_ToggleTwiceRestores ==
  /\ \A u \in Users :
       /\ get_checklist_text(_checklist_state, u)
            = ProgressText(Cardinality(OddItems(u)))
       /\ OddItems(u) = {} =>
            /\ \A it \in CatalogIds : ~StoredValue(u, it)
            /\ get_checklist_text(_checklist_state, u) = ProgressText(0)
  /\ \A i \in Slots, j \in Slots :
       (/\ i < j
        /\ IsHandler(i, "on_checklist_toggle") /\ IsHandler(j, "on_checklist_toggle")
        /\ hs[i].ev.user = hs[j].ev.user
        /\ ItemOf(hs[i].ev) = ItemOf(hs[j].ev)
        /\ hs[i].flipped /\ hs[j].flipped
        /\ \A k \in Slots \ {i, j} :
             ~(Started(k) /\ hs[k].ev.user = hs[i].ev.user /\ hs[k].flipped))
       => /\ Len(hs[i].log) >= 2 => EditedText(i) = ProgressText(1)
          /\ Len(hs[j].log) >= 2 => EditedText(j) = ProgressText(0)

(* a user toggled one item twice; the two re-renders read 1 / N and 0 / N
   and the item is stored as unchecked *)
C19_Witness ==
  \E i \in Slots, j \in Slots :
    /\ i < j
    /\ IsHandler(i, "on_checklist_toggle") /\ IsHandler(j, "on_checklist_toggle")
    /\ hs[i].ev = hs[j].ev
    /\ Done(i) /\ Done(j)
    /\ hs[i].flipped /\ hs[j].flipped
    /\ EditedText(i) = ProgressText(1)
    /\ EditedText(j) = ProgressText(0)
    /\ hs[i].ev.user \in DOMAIN _checklist_state
    /\ ItemOf(hs[i].ev) \in DOMAIN _checklist_state[hs[i].ev.user]
    /\ ~StoredValue(hs[i].ev.user, ItemOf(hs[i].ev))

(* the file references of the node a file request names *)
FilesOf(node_id) ==
  IF node_id \in DOMAIN MENU THEN MENU[node_id].files ELSE <<>>

(* the request names a node of the tree and the label of one of its files *)
ValidPair(ev) ==
  LET parts == Split(ev.data, 2)
  IN  /\ Len(parts) = 3
      /\ parts[2] \in DOMAIN MENU
      /\ \E f \in 1..Len(FilesOf(parts[2])) : FilesOf(parts[2])[f][1] = parts[3]

(* the file of the valid request is on disk *)
PathExists(ev) ==
  LET parts == Split(ev.data, 2)
  IN  \E f \in 1..Len(FilesOf(parts[2])) :
        /\ FilesOf(parts[2])[f][1] = parts[3]
        /\ FilesOf(parts[2])[f][2] \in existing

(* the completed calls of the coroutine that sent a file *)
FileSends(h) ==
  {k \in 1..Len(hs[h].log) : hs[h].log[k].call = "answer_document"}

(* C16: the file handler sends a file only for a request whose token
   splits into (node id, label), whose node is in the Content Tree and has
   a file with that label, and whose file is on disk; the file sent is the
   one asked for; in every other case no file is sent. *)
C16_FileOnlyIfValid ==
  \A h \in Slots :
    IsHandler(h, "on_file_callback") =>
      /\ FileSends(h) # {} =>
           /\ ValidPair(hs[h].ev)
           /\ PathExists(hs[h].ev)
           /\ ~hs[h].dup
           /\ Cardinality(FileSends(h)) = 1
           /\ \A k \in FileSends(h) :
                hs[h].log[k].arg = Split(hs[h].ev.data, 2)[3]
      /\ hs[h].pc = "file_document" =>
           (ValidPair(hs[h].ev) /\ PathExists(hs[h].ev))

(* a file was sent for a valid request, and a request for a label the node
   does not have was answered without a file *)
C16_Witness ==
  \E i \in Slots, j \in Slots :
    /\ IsHandler(i, "on_file_callback") /\ IsHandler(j, "on_file_callback")
    /\ Done(i) /\ Done(j)
    /\ FileSends(i) # {}
    /\ hs[i].log[1].res = "ok"
    /\ ~ValidPair(hs[j].ev)
    /\ FileSends(j) = {}

(* C17 (as stated): a first delivery of a file request with a valid pair
   whose file is not on disk is answered with the "File not found" notice,
   sends no file and does not raise out of the handler. *)
C17_MissingFileNotice ==
  \A h \in Slots :
    (/\ IsHandler(h, "on_file_callback")
     /\ ~hs[h].dup
     /\ ValidPair(hs[h].ev) /\ ~PathExists(hs[h].ev)
     /\ Done(h))
    => /\ hs[h].log[1].call = "cb.answer"
       /\ hs[h].log[1].arg = "File not found"
       /\ FileSends(h) = {}
       /\ ~hs[h].raised

(* C20 (as stated): no handler lets the exception of a transport call
   leave the handler. *)
C20_NoHandlerRaises ==
  \A h \in Slots : Started(h) => ~hs[h].raised

(* some child id or non-null parent id of the tree names no node *)
BrokenReferences(menu) ==
  \/ \E n \in DOMAIN menu : \E i \in 1..Len(menu[n].children) :
       menu[n].children[i][2] \notin DOMAIN menu
  \/ \E n \in DOMAIN menu :
       menu[n].parent_id # None /\ menu[n].parent_id \notin DOMAIN menu

(* C28: a process polls only after its token was accepted, after
   check_single_instance has returned (the marker write is its last step)
   and after the validation of the Content Tree found no error: polling is
   entered from main only, main from the marker write only, the guard from
   an accepted token only; a process whose tree holds a child id or a
   non-null parent id that names no node leaves main with SystemExit and
   never polls. *)
C28_PollingOnlyAfterChecks ==
  [][\A p \in Procs :
       LET f == proc[p]
           g == proc'[p]
           moved == g.pc # f.pc
       IN  /\ (g.pc = "polling" /\ moved) => f.pc = "main"
           /\ (g.pc = "main" /\ moved) => f.pc = "write"
           /\ (g.pc = "write" /\ moved) => f.pc \in {"exists", "probe", "unlink"}
           /\ (g.pc = "exists" /\ moved) => f.pc = "idle"
           /\ g.pc \in {"exists", "read", "probe", "unlink", "write", "main",
                         "polling"} => TokenAccepted(g.token)
           /\ g.pc = "polling" =>
                /\ ~BrokenReferences(Trees[g.tree])
                /\ validate_menu_structure(Trees[g.tree]) = {}
           /\ (f.pc = "main" /\ moved /\ g.pc # "killed"
                /\ BrokenReferences(Trees[f.tree]))
                => (g.pc = "finally" /\ g.exc = "SystemExit")
           /\ (g.pc = "rejected" /\ moved)
                => (f.pc = "idle" /\ ~TokenAccepted(g.token))
           /\ f.pc = "rejected" => g.pc = "rejected"]_vars

(* one process polls with the repository's tree while another, started
   with a tree whose parent reference is broken, has left main with
   SystemExit *)
C28_Witness ==
  \E p \in Procs, q \in Procs :
    /\ proc[p].pc = "polling"
    /\ proc[p].tree = "good"
    /\ proc[q].tree = "badparent"
    /\ proc[q].exc = "SystemExit"
    /\ proc[q].pc \in {"finally", "atexit", "exited"}

(* the set is within the limit before and after the step, and a step that
   changes it is the insertion of the fingerprint of the event dispatched
   in that step: the set grows by that fingerprint, or, when it held
   DEDUP_LIMIT fingerprints already, it is cleared *)
BoundedInsertion(before, after, fp) ==
  /\ Cardinality(before) <= DEDUP_LIMIT
  /\ Cardinality(after) <= DEDUP_LIMIT
  /\ after # before =>
       /\ delivered' = delivered + 1
       /\ fp \notin before
       /\ Cardinality(before) < DEDUP_LIMIT => after = before \cup {fp}
       /\ Cardinality(before) = DEDUP_LIMIT => after = {}

(* C29: at every point where a handler is suspended or has returned, the
   processed-message set and the processed-callback set hold at most 200
   fingerprints each; the only change to a set is the insertion of the
   dispatched event's fingerprint, and an insertion that takes the size
   above 200 clears the whole set. *)
C29_DedupSetsBounded ==
  [][LET ev == hs'[delivered'].ev
     IN  /\ BoundedInsertion(_processed_messages, _processed_messages',
                             msg_id(ev))
         /\ BoundedInsertion(_processed_callbacks, _processed_callbacks',
                             callback_id(ev))]_vars

(* a /start message was inserted into a full processed-message set, which
   is now empty, while the processed-callback set is full *)
C29_Witness ==
  /\ msgClears = 1
  /\ _processed_messages = {}
  /\ Cardinality(_processed_callbacks) = DEDUP_LIMIT
  /\ \E h \in Slots : IsHandler(h, "cmd_start") /\ Processed(h)

(* C30: whatever events were handled, every item id stored for any user is
   an id of the catalog, and every user's completed count lies between 0
   and the number of catalog items. *)
C30_StoredItemsInCatalog ==
  /\ \A u \in DOMAIN _checklist_state :
       DOMAIN _checklist_state[u] \subseteq CatalogIds
  /\ \A u \in Users :
       LET p == get_checklist_progress(_checklist_state, u)
       IN  /\ 0 <= p[1] /\ p[1] <= p[2]
           /\ p[2] = Len(CatalogItems)
           /\ p[2] = Cardinality(CatalogIds)

(* a token with a padded item id was stored under the catalog id, and a
   toggle of an id outside the catalog has been handled *)
C30_Witness ==
  /\ "u2" \in DOMAIN _checklist_state
  /\ DOMAIN _checklist_state["u2"] = {"market_demand"}
  /\ get_checklist_progress(_checklist_state, "u2")[1] = 1
  /\ \E h \in Slots : UnknownToggle(hs[h]) /\ Done(h)

(* a keyboard as rows of <<label, node id the token parses to>> *)
Layout(keyboard) ==
  [i \in 1..Len(keyboard) |->
     [j \in 1..Len(keyboard[i]) |->
        <<keyboard[i][j].text[1], parse_callback(keyboard[i][j].callback_data)>>]]

(* the seven section buttons in their order, then Back and Home *)
FixedRootLayout ==
  << << <<"How it works", "what_is_coa">> >>,
     << <<"Start launch", "start_launch">> >>,
     << <<"Communication flows", "flows">> >>,
     << <<"Materials & templates", "materials">> >>,
     << <<"Reports & KPI", "reports">> >>,
     << <<"FAQ", "faq">> >>,
     << <<"Contacts", "contacts">> >>,
     << <<"Back", "root">>, <<"Home", "root">> >> >>

(* contents the children field of root might be given *)
RootChildrenVariants ==
  { <<>>,
    << <<"FAQ", "faq">> >>,
    << <<"Contacts", "contacts">>, <<"How it works", "what_is_coa">> >>,
    MENU["faq"].children }

(* C23: whenever root is rendered (asked for by name or as the fallback of
   an unknown id) the keyboard is the seven section buttons in their fixed
   order followed by the Back/Home row, whatever the root node's children
   field holds and whatever any user's checklist state is. *)
C23_RootLayoutFixed ==
  (Called /\ ResolveNodeId(rIn.node_id) = "root") =>
    /\ rOut.raised = None
    /\ Layout(rOut.keyboard) = FixedRootLayout
    /\ \A c \in RootChildrenVariants :
         build_menu_keyboard([MENU["root"] EXCEPT !.children = c],
                             rIn.user_id, rIn.store) = rOut.keyboard
    /\ \A s \in RenderStores, u \in Users \cup {None} :
         render_node(rIn.node_id, u, s) = rOut

(* root was rendered for a user who has an item checked *)
C23_Witness ==
  /\ rIn.node_id = "root"
  /\ rIn.user_id = "u2"
  /\ "u2" \in DOMAIN rIn.store
  /\ StateGet(rIn.store["u2"], "partner_model")
  /\ Layout(rOut.keyboard) = FixedRootLayout

(* the coroutine has sent the file or is suspended in sending it *)
Releases(h) == FileSends(h) # {} \/ hs[h].pc = "file_document"

(* C24 (as stated): of two deliveries of one file request, at most one
   releases the file, in every interleaving. *)
C24_AtMostOneRelease ==
  \A i \in Slots, j \in Slots :
    (/\ i < j
     /\ SameCallback(i, j)
     /\ IsHandler(i, "on_file_callback") /\ IsHandler(j, "on_file_callback"))
    => ~(Releases(i) /\ Releases(j))

(* C24 (amended): a file request that is not a duplicate is marked before
   its handler is first suspended: at every suspension point its
   fingerprint is in the processed-callback set, unless the set has been
   cleared since the dispatch (the marking itself clears the set when it
   takes it above 200 entries).  Of two deliveries of one request that
   were dispatched with no clearing in between, at most one releases the
   file, in every interleaving. *)
C24_AtMostOneReleasePerEpoch ==
  /\ \A h \in Slots :
       (IsHandler(h, "on_file_callback") /\ hs[h].ev.has_message /\ ~hs[h].dup)
         => \/ callback_id(hs[h].ev) \in _processed_callbacks
            \/ cbClears > hs[h].epoch
  /\ \A i \in Slots, j \in Slots :
       (/\ i < j
        /\ SameCallback(i, j)
        /\ IsHandler(i, "on_file_callback") /\ IsHandler(j, "on_file_callback")
        /\ hs[i].epoch = hs[j].epoch)
       => ~(Releases(i) /\ Releases(j))

(* the first handler is still suspended in sending the file when the second
   delivery of the same request has been acknowledged as a duplicate *)
C24_Witness ==
  \E i \in Slots, j \in Slots :
    /\ i < j
    /\ SameCallback(i, j)
    /\ IsHandler(i, "on_file_callback")
    /\ hs[i].pc = "file_document"
    /\ Done(j) /\ hs[j].dup
    /\ ~Releases(j)

(* the delivery of the file failed, or has not returned *)
FailedOrStalled(h) ==
  \/ hs[h].pc \in {"file_document", "file_alert", "file_answer",
                   "file_error_alert"}
  \/ \E k \in 1..Len(hs[h].log) : hs[h].log[k].res = "error"

(* C27 (as stated): once a file request has been marked and its delivery
   has failed or stalled, a later delivery of the same request is only
   acknowledged and sends no file. *)
C27_NoRetryAfterFailure ==
  \A i \in Slots, j \in Slots :
    (/\ i < j
     /\ SameCallback(i, j)
     /\ IsHandler(i, "on_file_callback") /\ IsHandler(j, "on_file_callback")
     /\ Processed(i) /\ FailedOrStalled(i))
    => /\ hs[j].dup
       /\ ~Releases(j)
       /\ Done(j) => AckOnly(j)

(* C27 (amended): once a file request has been marked and its delivery has
   failed or stalled, a later delivery of the same request, dispatched
   with no clearing of the processed-callback set in between, is not
   retried: it takes the duplicate branch, is acknowledged once without a
   notice and sends no file. *)
C27_NoRetryAfterFailurePerEpoch ==
  \A i \in Slots, j \in Slots :
    (/\ i < j
     /\ SameCallback(i, j)
     /\ IsHandler(i, "on_file_callback") /\ IsHandler(j, "on_file_callback")
     /\ hs[i].epoch = hs[j].epoch
     /\ Processed(i) /\ FailedOrStalled(i))
    => /\ hs[j].dup
       /\ ~Releases(j)
       /\ \A k \in 1..Len(hs[j].log) :
            hs[j].log[k].call = "cb.answer" /\ hs[j].log[k].arg = None
       /\ Done(j) => AckOnly(j)

(* the file could not be sent and the user was told so; the same request
   came again and was acknowledged only *)
C27_Witness ==
  \E i \in Slots, j \in Slots :
    /\ i < j
    /\ SameCallback(i, j)
    /\ IsHandler(i, "on_file_callback")
    /\ Done(i)
    /\ hs[i].log[1].call = "answer_document" /\ hs[i].log[1].res = "error"
    /\ FileSends(j) = {}
    /\ Done(j) /\ hs[j].dup /\ AckOnly(j)

(* C21: a handler of user A that never returns from a transport call does
   not hold up user B: a coroutine queues for a lock only behind a
   coroutine of its own user, and, given only that B's own transport calls
   return, every handler of B runs to completion while A's stay suspended
   for as long as they like. *)
C21_OtherUserNotBlocked ==
  /\ [][\A h \in Slots :
          (hs[h].pc = "idle" /\ hs'[h].pc = "wait_lock") =>
            \E g \in Slots \ {h} :
              /\ Started(g)
              /\ hs[g].ev.user = hs'[h].ev.user
              /\ InSection(g) \/ hs[g].pc = "wait_lock"]_vars
  /\ \A h \in Slots :
       (Started(h) /\ hs[h].ev.user = "u2") ~> Done(h)

(* a handler of u1 is suspended in the edit of the message, holding u1's
   lock, and a handler of u2 dispatched after it has flipped its item,
   edited its message and returned *)
C21_Witness ==
  \E i \in Slots, j \in Slots :
    /\ i < j
    /\ hs[i].pc = "edit_text" /\ hs[i].ev.user = "u1"
    /\ locked["u1"]
    /\ IsHandler(j, "on_checklist_toggle") /\ hs[j].ev.user = "u2"
    /\ hs[j].flipped /\ Done(j) /\ ~hs[j].waited
    /\ Len(hs[j].log) >= 2

(* the tokens of the buttons of a keyboard *)
TokensOf(keyboard) ==
  {keyboard[i][j].callback_data :
     i \in 1..Len(keyboard), j \in {1}}

(* the coroutine navigates to a node of the tree that has file references *)
NavigatesToFiles(h) ==
  KnownTarget(h) /\ MENU[parse_callback(hs[h].ev.data)].files # <<>>

(* C22 (as stated): after navigation to a node with file references has
   updated the display surface, each file of the node is delivered. *)
C22_FilesFollowRender ==
  \A h \in Slots :
    (NavigatesToFiles(h) /\ Done(h)) =>
      LET files == MENU[parse_callback(hs[h].ev.data)].files
      IN  \A f \in 1..Len(files) :
            \E k \in 1..Len(hs[h].log) :
              /\ k > 2
              /\ hs[h].log[k].call = "answer_document"
              /\ hs[h].log[k].arg = files[f][1]

(* C22 (amended): navigation to a node with file references delivers no
   file: the handler acknowledges, updates the display surface with the
   node's text and a keyboard that holds one file-request button per file
   reference, and returns; a file is delivered when its button is pressed. *)
C22_NavigationOffersFiles ==
  \A h \in Slots :
    NavigatesToFiles(h) =>
      LET nid == parse_callback(hs[h].ev.data)
          files == MENU[nid].files
      IN  /\ FileSends(h) = {}
          /\ \A k \in 1..Len(hs[h].log) :
               hs[h].log[k].call \in {"cb.answer"} \cup UpdateCalls
          /\ hs[h].pc \in {"edit_text", "edit_reply_markup", "fallback_answer"} =>
               /\ hs[h].rendered.text = MENU[nid].text
               /\ \A f \in 1..Len(files) :
                    <<"file", nid, files[f][1]>> \in TokensOf(hs[h].rendered.keyboard)
          /\ Done(h) => (Len(hs[h].log) >= 2 /\ hs[h].log[2].arg = MENU[nid].text)

(* navigation to the contracts node has updated the message and returned
   without sending anything *)
C22_Witness ==
  \E h \in Slots :
    /\ NavigatesToFiles(h)
    /\ Done(h)
    /\ Len(hs[h].log) = 2
    /\ hs[h].log[2].call = "edit_text" /\ hs[h].log[2].res = "ok"

(* C25: the lock of a user is held only while a handler of that user is
   between acquire and release, so it is free after every exit (normal
   completion, unknown node, unknown item, failed update); a handler that
   waits for the lock leaves the queue only by taking the lock; and, given
   that transport calls return, every handler returns, the ones that had
   to wait for the lock of an earlier handler included. *)
C25_LockReleasedOnEveryPath ==
  /\ [](\A u \in Users :
          locked[u] => \E h \in Slots : InSection(h) /\ hs[h].ev.user = u)
  /\ [][\A h \in Slots :
          (hs[h].pc = "wait_lock" /\ hs'[h].pc # "wait_lock") =>
            (locked'[hs[h].ev.user] /\ ~locked[hs[h].ev.user]
             /\ hs'[h].pc \in {"alert_invalid", "alert_unknown_item",
                                "ack_unknown", "ack"})]_vars
  /\ \A h \in Slots : Started(h) ~> Done(h)

(* a handler that returned early on an unknown item or node was followed
   by a handler of the same user that had waited for the lock, and both
   have returned with the lock free *)
C25_Witness ==
  \E i \in Slots, j \in Slots :
    /\ i < j
    /\ Started(i) /\ Started(j)
    /\ hs[i].ev.user = hs[j].ev.user
    /\ UnknownToggle(hs[i]) \/ UnknownTarget(i)
    /\ hs[j].waited
    /\ Done(i) /\ Done(j)
    /\ ~locked[hs[i].ev.user]

(* C26: when edit_text fails because the content is unchanged, the only
   further call is edit_reply_markup; when it fails for another reason the
   only further call is message.answer with the text and keyboard of the
   failed edit; when it succeeds nothing follows; the failure of either
   fallback ends the handler without an exception. *)
C26_EditFallbacks ==
  [][\A h \in Slots :
       LET f == hs[h]
           g == hs'[h]
           log == g.log
       IN  /\ (f.pc = "edit_text" /\ g # f) =>
                LET res == log[Len(log)].res
                IN  /\ log[Len(log)].call = "edit_text"
                    /\ res = "ok" => g.pc = "done"
                    /\ res = "not_modified" =>
                         (g.pc = "edit_reply_markup" /\ g.rendered = f.rendered)
                    /\ res = "error" =>
                         (g.pc = "fallback_answer" /\ g.rendered = f.rendered)
           /\ (f.pc \in {"edit_reply_markup", "fallback_answer"} /\ g # f) =>
                /\ g.pc = "done" /\ ~g.raised
                /\ Len(log) = Len(f.log) + 1
                /\ log[Len(log)].call
                     = (IF f.pc = "edit_reply_markup"
                          THEN "edit_reply_markup" ELSE "message.answer")
                /\ log[Len(log)].arg = f.rendered.text
                /\ log[Len(log)].arg = log[Len(log) - 1].arg
                /\ log[Len(log) - 1].call = "edit_text"
           /\ \A k \in 1..Len(log) :
                /\ log[k].call = "edit_reply_markup" =>
                     (k > 1 /\ log[k - 1].call = "edit_text"
                            /\ log[k - 1].res = "not_modified")
                /\ log[k].call = "message.answer" =>
                     (k > 1 /\ log[k - 1].call = "edit_text"
                            /\ log[k - 1].res = "error")
                /\ log[k].call \in {"edit_reply_markup", "message.answer"}
                     => k = Len(log)]_vars

(* the edit failed because the message was gone, the new message could not
   be sent either, and the handler returned without raising *)
C26_Witness ==
  \E h \in Slots :
    /\ Done(h) /\ ~hs[h].raised
    /\ Len(hs[h].log) = 3
    /\ hs[h].log[2].call = "edit_text" /\ hs[h].log[2].res = "error"
    /\ hs[h].log[3].call = "message.answer" /\ hs[h].log[3].res = "error"
    /\ ~locked[hs[h].ev.user]

(* the user's stored state holds the item as true *)
CheckedFor(store, u, it) ==
  /\ u \in DOMAIN store
  /\ it \in DOMAIN store[u]
  /\ store[u][it]

(* the rows of the keyboard whose button toggles the item *)
ToggleRows(keyboard, it) ==
  {i \in 1..Len(keyboard) :
     \E j \in 1..Len(keyboard[i]) :
       /\ "callback_data" \in DOMAIN keyboard[i][j]
       /\ keyboard[i][j].callback_data = <<"toggle", it>>}

(* C31: the checklist node rendered for a user has one row per catalog
   item, each item in exactly one row, the row a single toggle button whose
   glyph is "checked" exactly when the user's state holds the item as true;
   the last row is Back/Home; the count X of the progress text is the
   number of catalog items that are true for that user. *)
C31_ChecklistRendering ==
  (Called /\ rIn.node_id = CHECKLIST_NODE /\ rIn.user_id # None) =>
    LET kb == rOut.keyboard
        u  == rIn.user_id
    IN  /\ rOut.raised = None
        /\ Len(kb) = Cardinality(CatalogIds) + 1
        /\ \A it \in CatalogIds :
             /\ Cardinality(ToggleRows(kb, it)) = 1
             /\ \A i \in ToggleRows(kb, it) :
                  /\ i < Len(kb)
                  /\ Len(kb[i]) = 1
                  /\ kb[i][1].text[1] \in {"checked", "unchecked"}
                  /\ kb[i][1].text[1] = "checked" <=> CheckedFor(rIn.store, u, it)
        /\ \A i \in 1..(Len(kb) - 1) :
             \E it \in CatalogIds : i \in ToggleRows(kb, it)
        /\ NavRowOk(kb, MENU[CHECKLIST_NODE])
        /\ Len(LastRow(kb)) = 2
        /\ rOut.text[1] = "Progress"
        /\ rOut.text[2]
             = Cardinality({it \in CatalogIds : CheckedFor(rIn.store, u, it)})

(* the checklist was rendered for a user who has one item checked and
   another stored as unchecked: X is 1 *)
C31_Witness ==
  /\ rIn.node_id = CHECKLIST_NODE
  /\ rIn.user_id = "u1"
  /\ "u1" \in DOMAIN rIn.store
  /\ DOMAIN rIn.store["u1"] = {"market_demand", "partner_model"}
  /\ rIn.store["u1"]["market_demand"]
  /\ ~rIn.store["u1"]["partner_model"]
  /\ rOut.raised = None
  /\ rOut.text[2] = 1
  /\ Cardinality(ToggleRows(rOut.keyboard, "partner_model")) = 1

(* the navigate action tokens of a keyboard: the payloads the router gives
   to the navigation handler *)
NavTokens(keyboard) ==
  {keyboard[i][j].callback_data :
     <<i, j>> \in {<<i, j>> \in (1..Len(keyboard)) \X (1..9) :
                     /\ j <= Len(keyboard[i])
                     /\ "callback_data" \in DOMAIN keyboard[i][j]
                     /\ HandlerOf([kind |-> "callback",
                                   data |-> keyboard[i][j].callback_data])
                          = "on_menu_callback"}}

(* C32: every navigate token of every keyboard that is rendered, for any
   node, user and store, is parsed by parse_callback to the id of a node of
   the Content Tree: the press takes neither the invalid-token path (None)
   nor the unknown-node path, and the node rendered is the one named. *)
C32_RenderedTokensResolve ==
  (Called /\ rOut.raised = None) =>
    /\ NavTokens(rOut.keyboard) # {}
    /\ \A t \in NavTokens(rOut.keyboard) :
         /\ parse_callback(t) # None
         /\ parse_callback(t) \in DOMAIN MENU
         /\ ResolveNodeId(parse_callback(t)) = parse_callback(t)

(* a node with child buttons was rendered: its keyboard holds the token of
   a child, of Back and of Home *)
C32_Witness ==
  /\ rIn.node_id = "start_launch"
  /\ rOut.raised = None
  /\ {<<"menu", "start_step_1">>, <<"menu", "root">>}
       \subseteq NavTokens(rOut.keyboard)
  /\ Cardinality(NavTokens(rOut.keyboard)) = Len(MENU["start_launch"].children) + 1

(* the events of two coroutines agree in conversation, message and payload *)
SameFingerprintFields(i, j) ==
  /\ hs[i].ev.chat = hs[j].ev.chat
  /\ hs[i].ev.mid = hs[j].ev.mid
  /\ hs[i].ev.data = hs[j].ev.data

(* C33: a /start message or file request is skipped as a duplicate only if
   an earlier event of the same handler, with the same conversation id,
   message id and payload, was processed (marked, not skipped) before it;
   events that differ in one of the three are never skipped against each
   other, and an event never finds a fingerprint of the other handler. *)
C33_DuplicateOnlyIfIdentical ==
  \A h \in Slots :
    (Started(h) /\ hs[h].dup) =>
      \E j \in 1..(h - 1) :
        /\ HandlerOf(hs[j].ev) = HandlerOf(hs[h].ev)
        /\ SameFingerprintFields(j, h)
        /\ ~hs[j].dup

(* a file request was processed and a later one, which differs from it in
   the message id only, was processed too, not skipped *)
C33_Witness ==
  \E i, j \in Slots :
    /\ i < j
    /\ IsHandler(i, "on_file_callback") /\ IsHandler(j, "on_file_callback")
    /\ hs[i].ev.chat = hs[j].ev.chat
    /\ hs[i].ev.data = hs[j].ev.data
    /\ hs[i].ev.mid # hs[j].ev.mid
    /\ Done(i) /\ Done(j)
    /\ ~hs[i].dup /\ ~hs[j].dup
    /\ {callback_id(hs[i].ev), callback_id(hs[j].ev)} \subseteq _processed_callbacks

(* the value the store holds for a user's item; an absent user or item
   reads as false *)
ValueIn(store, u, it) ==
  /\ u \in DOMAIN store
  /\ StateGet(store[u], it)

(* C34: the toggle handler flips the item before its first transport call
   (the acknowledgment, then the update of the display surface); from the
   flip to the handler's return the stored value of the item is the new
   value, whatever the outcome of the acknowledgment, of the edit and of
   its fallback; the handler returns with the lock released. *)
C34_FlipNotRolledBack ==
  /\ [](\A h \in Slots :
          hs[h].flipped =>
            /\ HandlerOf(hs[h].ev) = "on_checklist_toggle"
            /\ hs[h].pc # "done" => locked[hs[h].ev.user]
            /\ hs[h].log # <<>> => hs[h].log[1].call = "cb.answer"
            /\ \A k \in 2..Len(hs[h].log) : hs[h].log[k].call \in UpdateCalls)
  /\ [][\A h \in Slots :
          LET f  == hs[h]
              g  == hs'[h]
              u  == g.ev.user
              it == ItemOf(g.ev)
          IN  /\ (~f.flipped /\ g.flipped) =>
                   /\ g.pc = "ack" /\ g.log = <<>>
                   /\ ValueIn(_checklist_state', u, it)
                        = ~ValueIn(_checklist_state, u, it)
              /\ (f.flipped /\ f.pc # "done") =>
                   /\ ValueIn(_checklist_state', u, it)
                        = ValueIn(_checklist_state, u, it)
                   /\ g.pc = "done" => ~locked'[u]]_vars

(* the acknowledgment, the edit and the new message all failed; the handler
   has returned, the item it checked is still checked and the lock is free *)
C34_Witness ==
  \E h \in Slots :
    /\ Done(h) /\ hs[h].flipped
    /\ Len(hs[h].log) = 3
    /\ \A k \in 1..3 : hs[h].log[k].res = "error"
    /\ hs[h].log[3].call = "message.answer"
    /\ ValueIn(_checklist_state, hs[h].ev.user, ItemOf(hs[h].ev))
    /\ ~locked[hs[h].ev.user]
    /\ \A j \in Slots \ {h} : ~Started(j)

(* C35: whenever a bot process is polling, the lock marker exists and
   records the process id of that process. *)
C35_PollingOwnsMarker ==
  \A p \in Procs : proc[p].pc = "polling" => lockFile = p

(* the pcs of check_single_instance before the marker is touched *)
GuardReadPcs == {"exists", "read", "probe"}

(* C36: a process that aborts at startup because the process recorded in
   the marker is alive has not changed the marker: the steps it took (the
   existence test, the read, the probe with its sys.exit) leave the marker
   as it is, and after the abort it takes no step, so neither a write nor
   a cleanup of its own follows. *)
C36_AbortLeavesMarker ==
  [][\A p \in Procs :
       /\ (proc'[p].pc = "aborted" /\ proc[p].pc # "aborted") =>
            /\ proc[p].pc = "probe"
            /\ proc'[p].found = "alive"
            /\ Alive(proc[p].old_pid)
            /\ lockFile' = lockFile
       /\ (proc[p].pc \in GuardReadPcs /\ proc'[p] # proc[p]
             /\ proc'[p].pc \in GuardReadPcs \cup {"aborted"}) =>
            lockFile' = lockFile
       /\ proc[p].pc = "aborted" => proc'[p] = proc[p]]_vars

(* a process has aborted on the marker of the other one, which is polling
   and is still the process the marker records *)
C36_Witness ==
  \E p, q \in Procs :
    /\ p # q
    /\ proc[p].pc = "aborted"
    /\ proc[p].old_pid = q
    /\ proc[q].pc = "polling"
    /\ lockFile = q

(* the navigate tokens of the rows above the Back/Home row: the child
   buttons of a node, the section buttons of the main menu *)
ChildTokens(keyboard) == NavTokens(SubSeq(keyboard, 1, Len(keyboard) - 1))

(* C37: for every node P that is rendered, root with its hard-coded
   main-menu buttons included, and for every child button of the keyboard,
   the node C the button leads to is rendered, for any user, with a Back
   button that leads to P. *)
C37_BackReturnsToParent ==
  (Called /\ rOut.raised = None) =>
    LET P == ResolveNodeId(rIn.node_id)
    IN  /\ (P # CHECKLIST_NODE /\ P # "root") =>
             ChildTokens(rOut.keyboard)
               = {<<"menu", MENU[P].children[i][2]>> :
                    i \in 1..Len(MENU[P].children)}
        /\ P = "root" =>
             ChildTokens(rOut.keyboard)
               = {<<"menu", main_menu_buttons[i][2]>> :
                    i \in 1..Len(main_menu_buttons)}
        /\ \A t \in ChildTokens(rOut.keyboard), u \in Users :
             LET C == parse_callback(t)
                 r == render_node(C, u, render_store(rIn.node_id, rIn.user_id,
                                                     rIn.store))
             IN  /\ C \in DOMAIN MENU
                 /\ r.raised = None
                 /\ HasNavButton(LastRow(r.keyboard), "Back", P)
                 /\ \A q \in DOMAIN MENU \ {P} :
                      ~HasNavButton(LastRow(r.keyboard), "Back", q)

(* a node was rendered whose child button leads to a node that is declared
   in the source under another step's name; its Back leads to the node *)
C37_Witness ==
  /\ rIn.node_id = "start_step_4"
  /\ rOut.raised = None
  /\ <<"menu", "start_step_2_lead_tracker_setup">> \in ChildTokens(rOut.keyboard)
  /\ HasNavButton(
       LastRow(render_node("start_step_2_lead_tracker_setup", "u1",
                           rIn.store).keyboard),
       "Back", "start_step_4")

(* the nodes one press of a navigation button of a node's rendering leads
   to: the navigation handler renders the node the token names when it is
   in the Content Tree and leaves the display as it is otherwise *)
Presses(n) ==
  UNION {{parse_callback(t) :
            t \in NavTokens(render_node(n, u, EmptyDict).keyboard)}
           \cap DOMAIN MENU : u \in Users}

RECURSIVE PressClosure(_)
(* the nodes that finitely many presses lead to from the nodes of S *)
PressClosure(S) ==
  LET T == S \cup UNION {Presses(n) : n \in S}
  IN  IF T = S THEN S ELSE PressClosure(T)

(* /start shows root *)
ReachableNodes == PressClosure({"root"})

(* C38: every node of the Content Tree, whichever of them the Render Engine
   is asked for, is reached from root by finitely many presses of
   navigation buttons that are rendered (main-menu buttons, child buttons,
   Back, Home). *)
C38_EveryNodeReachable ==
  (Called /\ rIn.node_id \in DOMAIN MENU) => rIn.node_id \in ReachableNodes

====
